---- MODULE Spec2Model ----
(***************************************************************************)
(* A model of amundsen_gremlin's reconciliation engine: the property type  *)
(* system and the vertex/edge types of gremlin_model.py, and the           *)
(* ENTITIES / EXISTING maps and the builder of                              *)
(* neptune_bulk_loader/gremlin_model_converter.py.                          *)
(*                                                                          *)
(* Python values are tagged tuples (<<"str", "a">>, <<"bool", TRUE>>, ...)  *)
(* so that values of different Python types can sit in one mapping.  A      *)
(* Python dict (an entity, a kwargs mapping) is a function whose domain is  *)
(* the set of its keys.  A call that can raise returns a record with an     *)
(* err field ("none" when it returned normally) and its value in val.       *)
(***************************************************************************)
EXTENDS Integers, Sequences, FiniteSets, TLC

\* ------------------------------------------------------------------------
\* Python values
\* ------------------------------------------------------------------------
None == <<"NoneType">>
PyStr(s) == <<"str", s>>
PyBool(b) == <<"bool", b>>
PyInt(n) == <<"int", n>>
\* an int that does not fit 32 bits, as its sign and its magnitude in three
\* limbs of 24 bits: sign * (m2 * 2^48 + m1 * 2^24 + m0)
PyLong(sign, m2, m1, m0) == <<"int", sign, m2, m1, m0>>
is_wide(v) == Len(v) = 5
\* a naive datetime.datetime: calendar day, second of the day, microsecond
DateTime(day, sec, micro) == <<"datetime", day, sec, micro, FALSE>>
\* a datetime.datetime that carries a tzinfo
DateTimeTz(day, sec, micro) == <<"datetime", day, sec, micro, TRUE>>
Date(day) == <<"date", day>>
\* the Property object itself, when it ends up as a value in an entity
PropertyObject(name) == <<"Property", name>>

TypeOf(v) == v[1]
isinstance_str(v) == TypeOf(v) = "str"
\* bool is a subclass of int in Python
isinstance_int(v) == TypeOf(v) \in {"int", "bool"}
int_value(v) == IF TypeOf(v) = "bool" THEN (IF v[2] THEN 1 ELSE 0) ELSE v[2]

\* the elements of a tuple or list
Range(s) == {s[i] : i \in DOMAIN s}

EmptyDict == [n \in {} |-> None]
\* dict.update: the entries of b win
dict_update(a, b) == [n \in DOMAIN a \cup DOMAIN b |-> IF n \in DOMAIN b THEN b[n] ELSE a[n]]
\* dict.get(n) with the default None
dict_get(d, n) == IF n \in DOMAIN d THEN d[n] ELSE None
dict_del(d, ks) == [n \in DOMAIN d \ ks |-> d[n]]
dict_values(d) == {d[n] : n \in DOMAIN d}

Ok(v) == [err |-> "none", val |-> v]
Raise(e) == [err |-> e, val |-> None]

\* ------------------------------------------------------------------------
\* gremlin_model.py: the scalar typers
\* ------------------------------------------------------------------------
Pow2(n) == 2 ^ n

\* the magnitude m (three limbs) divided by ten, and what remains
div10(m) ==
    <<m[1] \div 10,
      ((m[1] % 10) * Pow2(24) + m[2]) \div 10,
      ((((m[1] % 10) * Pow2(24) + m[2]) % 10) * Pow2(24) + m[3]) \div 10>>
mod10(m) == ((((m[1] % 10) * Pow2(24) + m[2]) % 10) * Pow2(24) + m[3]) % 10

\* the decimal digits of a magnitude
RECURSIVE decimal(_)
decimal(m) == IF m = <<0, 0, 0>> THEN "" ELSE decimal(div10(m)) \o ToString(mod10(m))

\* str(value) of the built-in format
py_str(v) ==
    CASE TypeOf(v) = "str" -> v[2]
      [] TypeOf(v) = "bool" -> (IF v[2] THEN "True" ELSE "False")
      [] TypeOf(v) = "int" /\ is_wide(v) ->
            (IF v[2] < 0 THEN "-" ELSE "") \o decimal(<<v[3], v[4], v[5]>>)
      [] TypeOf(v) = "int" /\ ~is_wide(v) -> ToString(v[2])
      [] TypeOf(v) = "NoneType" -> "None"
      [] OTHER -> "object"

GremlinBooleanTyper_is_allowed(v) == TypeOf(v) = "bool"
GremlinByteTyper_is_allowed(v) ==
    isinstance_int(v) /\ ~is_wide(v) /\ int_value(v) >= -Pow2(7) /\ int_value(v) < Pow2(7)
GremlinShortTyper_is_allowed(v) ==
    isinstance_int(v) /\ ~is_wide(v) /\ int_value(v) >= -Pow2(15) /\ int_value(v) < Pow2(15)
\* -(2**31) <= value < 2**31, written so that no intermediate leaves 32 bits
GremlinIntTyper_is_allowed(v) ==
    isinstance_int(v) /\ ~is_wide(v) /\ int_value(v) >= (0 - Pow2(30)) * 2 /\ int_value(v) <= (Pow2(30) - 1) * 2 + 1
\* -(2**63) <= value < 2**63: an int of 32 bits is, a wider one when its
\* magnitude is below 2**63 = 2**15 * 2**48, or is 2**63 under a minus sign
GremlinLongTyper_is_allowed(v) ==
    isinstance_int(v)
    /\ (is_wide(v) => \/ v[3] < Pow2(15)
                      \/ v[2] < 0 /\ v[3] = Pow2(15) /\ v[4] = 0 /\ v[5] = 0)
GremlinFloatTyper_is_allowed(v) == TypeOf(v) = "float"
GremlinStringTyper_is_allowed(v) == isinstance_str(v)
GremlinDateTyper_is_allowed(v) ==
    /\ TypeOf(v) \in {"datetime", "date"}
    /\ (TypeOf(v) = "datetime" => v[5] = FALSE)

\* isoformat: a datetime at second precision, a date as its calendar day
GremlinDateTyper_format(v) ==
    IF TypeOf(v) = "datetime"
    THEN ToString(v[2]) \o "T" \o ToString(v[3])
    ELSE ToString(v[2])

is_allowed(type, v) ==
    CASE type = "Boolean" -> GremlinBooleanTyper_is_allowed(v)
      [] type = "Byte" -> GremlinByteTyper_is_allowed(v)
      [] type = "Short" -> GremlinShortTyper_is_allowed(v)
      [] type = "Int" -> GremlinIntTyper_is_allowed(v)
      [] type = "Long" -> GremlinLongTyper_is_allowed(v)
      [] type \in {"Float", "Double"} -> GremlinFloatTyper_is_allowed(v)
      [] type = "String" -> GremlinStringTyper_is_allowed(v)
      [] type = "Date" -> GremlinDateTyper_is_allowed(v)
      [] OTHER -> FALSE

\* GremlinTyper.format: is_allowed first (an AssertionError otherwise)
GremlinTyper_format(type, v) ==
    IF ~is_allowed(type, v) THEN Raise("AssertionError")
    ELSE IF type = "Date" THEN Ok(GremlinDateTyper_format(v))
    ELSE Ok(py_str(v))

\* ------------------------------------------------------------------------
\* gremlin_model.py: properties
\* ------------------------------------------------------------------------
Property(name, type, cardinality, required, default) ==
    [name |-> name, type |-> type, cardinality |-> cardinality,
     multi_valued |-> FALSE, required |-> required, default |-> default]

Property_format(p, v) == GremlinTyper_format(p.type, v)

MagicProperties_ID == Property("~id", "String", "None", TRUE, None)
MagicProperties_LABEL == Property("~label", "String", "None", TRUE, None)
MagicProperties_FROM == Property("~from", "String", "None", TRUE, None)
MagicProperties_TO == Property("~to", "String", "None", TRUE, None)

WellKnownProperties_Key == Property("key", "String", "None", TRUE, None)
WellKnownProperties_Created == Property("created", "Date", "None", TRUE, None)
WellKnownProperties_Expired == Property("expired", "Date", "None", FALSE, None)
WellKnownProperties_TestShard == Property("shard", "String", "None", TRUE, None)

\* ------------------------------------------------------------------------
\* id formats: a format string is the sequence of its literal pieces
\* <<"lit", text>> and its replacement fields <<"field", name>>
\* ------------------------------------------------------------------------
Lit(s) == <<"lit", s>>
Field(n) == <<"field", n>>

VertexTypeIdFormats_DEFAULT == <<Field("~label"), Lit(":"), Field("key")>>
EdgeTypeIdFormats_DEFAULT ==
    <<Field("~label"), Lit(":"), Field("~from"), Lit("->"), Field("~to")>>
EdgeTypeIdFormats_EXPIRABLE ==
    <<Field("~label"), Lit(":"), Field("created"), Lit(":"),
      Field("~from"), Lit("->"), Field("~to")>>

\* the fields of a format string that values has no entry for, by position
MissingFields(format_string, values) ==
    {i \in 1..Len(format_string) :
        format_string[i][1] = "field" /\ format_string[i][2] \notin DOMAIN values}

RECURSIVE Render(_, _)
Render(format_string, values) ==
    IF format_string = <<>> THEN ""
    ELSE LET piece == Head(format_string)
             text == IF piece[1] = "lit" THEN piece[2] ELSE py_str(values[piece[2]])
         IN text \o Render(Tail(format_string), values)

\* str.format(**values): KeyError on the first field without a value
str_format(format_string, values) ==
    IF MissingFields(format_string, values) # {} THEN Raise("KeyError")
    ELSE Ok(Render(format_string, values))

\* try to render, add the field the KeyError names, retry
RECURSIVE discover_parameters_from(_, _)
discover_parameters_from(format_string, parameters) ==
    LET missing == MissingFields(format_string, [k \in parameters |-> PyStr("")])
    IN IF missing = {} THEN parameters
       ELSE LET first == CHOOSE i \in missing : \A j \in missing : i <= j
            IN discover_parameters_from(format_string,
                                        parameters \cup {format_string[first][2]})

\* no discovery: a format string is taken to have no parameters
discover_parameters_none(format_string) == {}
discover_parameters(format_string) == discover_parameters_from(format_string, {})

HasField(format_string, name) ==
    \E i \in 1..Len(format_string) : format_string[i] = Field(name)
\* ------------------------------------------------------------------------
\* gremlin_model.py: VertexType and EdgeType
\* ------------------------------------------------------------------------
names_of(properties) == {p.name : p \in properties}

\* construct_type that leaves the id format as it is given
VertexType_construct_type_unprefixed(shard_, label, properties_, id_format_) ==
    LET sharded == shard_ # None /\ shard_ # PyStr("")
        properties == properties_
            \cup {MagicProperties_LABEL, MagicProperties_ID, WellKnownProperties_Key}
            \cup (IF sharded THEN {WellKnownProperties_TestShard} ELSE {})
        defaults == IF sharded THEN [n \in {"shard"} |-> shard_] ELSE EmptyDict
    IN IF discover_parameters(id_format_) \subseteq names_of(properties)
       THEN Ok([kind |-> "VertexType", label |-> label, properties |-> properties,
                id_format |-> id_format_, defaults |-> defaults])
       ELSE Raise("AssertionError")

\* VertexType.construct_type under the shard that get_shard() returns;
\* val is None (an AssertionError) when the id format has a parameter
\* that is no property
VertexType_construct_type(shard_, label, properties_, id_format_) ==
    LET sharded == shard_ # None /\ shard_ # PyStr("")
        properties == properties_
            \cup {MagicProperties_LABEL, MagicProperties_ID, WellKnownProperties_Key}
            \cup (IF sharded THEN {WellKnownProperties_TestShard} ELSE {})
        defaults == IF sharded THEN [n \in {"shard"} |-> shard_] ELSE EmptyDict
        id_format == IF sharded /\ ~HasField(id_format_, "shard")
                     THEN <<Field("shard"), Lit(":")>> \o id_format_
                     ELSE id_format_
    IN IF discover_parameters(id_format) \subseteq names_of(properties)
       THEN Ok([kind |-> "VertexType", label |-> label, properties |-> properties,
                id_format |-> id_format, defaults |-> defaults])
       ELSE Raise("AssertionError")

EdgeType_construct_type(label, expirable, properties_, id_format_) ==
    LET properties == properties_
            \cup {MagicProperties_LABEL, MagicProperties_ID, MagicProperties_FROM,
                  MagicProperties_TO, WellKnownProperties_Created}
            \cup (IF expirable THEN {WellKnownProperties_Expired} ELSE {})
    IN IF discover_parameters(id_format_) \subseteq names_of(properties)
       THEN Ok([kind |-> "EdgeType", label |-> label, properties |-> properties,
                id_format |-> id_format_, defaults |-> EmptyDict])
       ELSE Raise("AssertionError")

properties_as_map(type) ==
    [n \in names_of(type.properties) |-> CHOOSE p \in type.properties : p.name = n]

\* the values that id() hands to the id format: everything that is neither
\* None nor already a str goes through its property's formatter
id_needs_format(v) == v # None /\ ~isinstance_str(v)

Type_id_values(type, entity) ==
    [n \in DOMAIN entity \cup {"~label"} |->
        IF n = "~label" THEN PyStr(type.label)
        ELSE IF id_needs_format(entity[n])
             THEN PyStr(Property_format(properties_as_map(type)[n], entity[n]).val)
             ELSE entity[n]]

Type_id_error(type, entity) ==
    IF \E n \in DOMAIN entity :
          id_needs_format(entity[n]) /\ n \notin names_of(type.properties)
    THEN "KeyError"
    ELSE IF \E n \in DOMAIN entity :
               /\ id_needs_format(entity[n])
               /\ Property_format(properties_as_map(type)[n], entity[n]).err # "none"
    THEN "AssertionError"
    ELSE "none"

\* the last statements of id(): the formatted values go into the id format
Type_format_id(type, entity) ==
    IF Type_id_error(type, entity) # "none" THEN Raise(Type_id_error(type, entity))
    ELSE str_format(type.id_format, Type_id_values(type, entity))

\* VertexType.id: the defaults first
VertexType_id(type, entity) == Type_format_id(type, dict_update(type.defaults, entity))

EdgeType_id(type, entity) == Type_format_id(type, entity)

Type_id(type, entity) ==
    IF type.kind = "VertexType" THEN VertexType_id(type, entity) ELSE EdgeType_id(type, entity)

\* the tail of create without its two asserts
create_finish_unchecked(type, properties_) ==
    LET present == dict_del(properties_, {k \in DOMAIN properties_ : properties_[k] = None})
        defaulted == {p \in type.properties : p.default # None /\ p.name \notin DOMAIN present}
    IN Ok(dict_update(present, [k \in names_of(defaulted) |-> PropertyObject(k)]))

\* the tail of create, shared by both kinds: drop the None values, fill the
\* property-level defaults, check the names and the required properties
create_finish(type, properties_) ==
    LET present == dict_del(properties_, {k \in DOMAIN properties_ : properties_[k] = None})
        defaulted == {p \in type.properties : p.default # None /\ p.name \notin DOMAIN present}
        \* the update stores the items of properties_as_map(): the Property itself
        properties == dict_update(present, [k \in names_of(defaulted) |-> PropertyObject(k)])
        required_property_names == {p.name : p \in {q \in type.properties : q.required}}
    IN IF ~(DOMAIN properties \subseteq names_of(type.properties)) THEN Raise("AssertionError")
       ELSE IF ~(required_property_names \subseteq DOMAIN properties) THEN Raise("AssertionError")
       ELSE Ok(properties)

\* properties[ID.name] = self.id(**properties), id being what self.id gave
create_id(properties, id) ==
    IF id.err # "none" THEN Raise(id.err)
    ELSE Ok(dict_update(properties, [n \in {"~id"} |-> PyStr(id.val)]))

\* properties[LABEL.name] = self.label, unless the label is there
create_label(type, properties) ==
    IF MagicProperties_LABEL \in type.properties /\ "~label" \notin DOMAIN properties
    THEN dict_update(properties, [n \in {"~label"} |-> PyStr(type.label)])
    ELSE properties

\* create from the label on, with_id being the properties once the id is in
create_from_label(type, with_id, defaults) ==
    IF with_id.err # "none" THEN with_id
    ELSE create_finish(type, dict_update(defaults, create_label(type, with_id.val)))

VertexType_create(type, properties) ==
    create_from_label(
        type,
        IF MagicProperties_ID \in type.properties /\ "~id" \notin DOMAIN properties
        THEN create_id(properties, VertexType_id(type, properties))
        ELSE Ok(properties),
        type.defaults)

\* EdgeType.create has no defaults to fill
EdgeType_create(type, properties) ==
    create_from_label(
        type,
        IF MagicProperties_ID \in type.properties /\ "~id" \notin DOMAIN properties
        THEN create_id(properties, EdgeType_id(type, properties))
        ELSE Ok(properties),
        EmptyDict)

Type_create(type, properties) ==
    IF type.kind = "VertexType" THEN VertexType_create(type, properties)
    ELSE EdgeType_create(type, properties)
\* ------------------------------------------------------------------------
\* gremlin_model.py: the schema (VertexTypes, EdgeTypes)
\* ------------------------------------------------------------------------
Opt(name, type) == Property(name, type, "None", FALSE, None)
Req(name, type) == Property(name, type, "None", TRUE, None)

VertexLabels ==
    {"Application", "Column", "Cluster", "Database", "Description",
     "Programmatic_Description", "Schema", "Source", "Stat", "Table", "Tag",
     "Timestamp", "Updatedtimestamp", "User", "Watermark"}

VertexTypes_properties(label) ==
    CASE label = "Application" ->
            {Req("id", "String"), Opt("name", "String"), Opt("description", "String"),
             Property("application_url", "String", "set", FALSE, None)}
      [] label = "Column" ->
            {Req("name", "String"), Opt("sort_order", "Int"), Opt("col_type", "String")}
      [] label \in {"Cluster", "Database", "Schema"} -> {Req("name", "String")}
      [] label \in {"Description", "Programmatic_Description"} ->
            {Req("description", "String"), Req("description_source", "String")}
      [] label = "Stat" ->
            {Opt("stat_val", "String"), Opt("stat_type", "String"),
             Opt("start_epoch", "Date"), Opt("end_epoch", "Date")}
      [] label = "Table" ->
            {Req("name", "String"), Opt("is_view", "Boolean"), Opt("display_name", "String")}
      [] label = "Tag" ->
            {Req("tag_name", "String"),
             Property("tag_type", "String", "None", TRUE, PyStr("default"))}
      [] label = "Updatedtimestamp" -> {Req("latest_timestamp", "Date")}
      [] label = "User" ->
            {Req("user_id", "String"), Opt("email", "String"), Opt("full_name", "String"),
             Opt("first_name", "String"), Opt("last_name", "String"),
             Opt("display_name", "String"), Opt("team_name", "String"),
             Opt("employee_type", "String"), Opt("is_active", "Boolean"),
             Opt("profile_url", "String"), Opt("role_name", "String"),
             Opt("slack_id", "String"), Opt("github_username", "String"),
             Opt("manager_fullname", "String"), Opt("manager_email", "String"),
             Opt("manager_id", "String"), Opt("is_robot", "Boolean")}
      [] OTHER -> {}

EdgeLabels ==
    {"ADMIN", "BELONG_TO_TABLE", "CLUSTER", "COLUMN", "DATABASE", "DESCRIPTION",
     "FOLLOW", "GENERATES", "LAST_UPDATED_AT", "MANAGED_BY", "OWNER", "READ",
     "READ_WRITE", "READ_ONLY", "SCHEMA", "SOURCE", "STAT", "TABLE", "TAG"}

EdgeTypes_Read_id_format ==
    <<Field("~label"), Lit(":"), Field("date"), Lit(":"),
      Field("~from"), Lit("->"), Field("~to")>>

\* the types by label, as the enums hold them once the module is imported
\* under the shard shard_
VertexTypes(shard_, label) ==
    VertexType_construct_type(shard_, label, VertexTypes_properties(label),
                              VertexTypeIdFormats_DEFAULT).val

EdgeTypes(label) ==
    IF label = "READ"
    THEN EdgeType_construct_type(label, TRUE, {Req("date", "Date"), Req("read_count", "Long")},
                                 EdgeTypes_Read_id_format).val
    ELSE EdgeType_construct_type(label, TRUE, {}, EdgeTypeIdFormats_EXPIRABLE).val

Labels == VertexLabels \cup EdgeLabels

\* the shard identifiers the schema is constructed under in this model
Shards == {None, PyStr("s1")}

\* the enums are built once, when the module is imported
Schema ==
    [s \in Shards |->
        [l \in Labels |-> IF l \in VertexLabels THEN VertexTypes(s, l) ELSE EdgeTypes(l)]]

TypeOfLabel(shard_, label) == Schema[shard_][label]

\* ------------------------------------------------------------------------
\* gremlin_model_converter.py: ENTITIES, EXISTING and _create
\* ------------------------------------------------------------------------
\* ENTITIES: label -> (id -> entity); EXISTING: label -> (existing-key -> entity)
new_entities == [l \in Labels |-> EmptyDict]
new_existing == [l \in Labels |-> EmptyDict]

get_key_properties(type) ==
    {properties_as_map(type)[n] : n \in discover_parameters(type.id_format)}

\* the key properties with created left in for the edges
existing_key_properties_with_created(type) ==
    ((get_key_properties(type)
        \ (IF type.kind = "VertexType" THEN {WellKnownProperties_TestShard} ELSE {}))
        \ {MagicProperties_LABEL})

existing_key_properties(type) ==
    ((get_key_properties(type)
        \ (IF type.kind = "EdgeType" THEN {WellKnownProperties_Created} ELSE {}))
        \ (IF type.kind = "VertexType" THEN {WellKnownProperties_TestShard} ELSE {}))
        \ {MagicProperties_LABEL}

\* the frozenset of (name, formatted value); formatting a missing or
\* wrongly typed value is an AssertionError
get_existing_key(type, entity) ==
    IF \E p \in existing_key_properties(type) :
          Property_format(p, dict_get(entity, p.name)).err # "none"
    THEN Raise("AssertionError")
    ELSE Ok({<<p.name, Property_format(p, dict_get(entity, p.name)).val>> :
                p \in existing_key_properties(type)})

\* the overlay of _create: the new raw properties as they are
create_overlay_none(type, kwargs, existing_entity) == kwargs

\* the overlay of _create: the existing record's values of the id-format
\* properties are written over the raw properties
create_overlay(type, kwargs, existing_entity) ==
    LET names == names_of(get_key_properties(type))
    IN dict_update(kwargs, [k \in DOMAIN existing_entity \cap names |-> existing_entity[k]])

\* _create without the registration of the new entity
create_register_none(existing_, label, existing_key, entity) == existing_

\* the registration with a new dict for the type: what the fetch had put
\* there is gone
create_register_anew(existing_, label, existing_key, entity) ==
    [existing_ EXCEPT ![label] = [k \in {existing_key} |-> entity]]

\* _create, no match in EXISTING: the new entity is put into EXISTING
create_register(existing_, label, existing_key, entity) ==
    [existing_ EXCEPT ![label] = dict_update(@, [k \in {existing_key} |-> entity])]

\* the store step with the first assert the comments of _create wish for:
\* assert _id not in _entities[_type]
create_store_assert_absent(st, label, entity) ==
    LET id == dict_get(entity, "~id")
    IN IF id \in DOMAIN st.entities[label]
       THEN [st EXCEPT !.err = "AssertionError", !.val = None, !.made = None]
       ELSE [st EXCEPT !.entities[label] = dict_update(@, [k \in {id} |-> entity]),
                       !.err = "none", !.val = entity, !.made = entity]

\* the store step with a plain assignment: the last entity created wins
create_store_overwrite(st, label, entity) ==
    LET id == dict_get(entity, "~id")
    IN [st EXCEPT !.entities[label] = dict_update(@, [k \in {id} |-> entity]),
                  !.err = "none", !.val = entity, !.made = entity]

\* the store step with a message for every re-creation, identical or not
create_store_log_all(st, label, entity) ==
    LET id == dict_get(entity, "~id")
        stored == id \in DOMAIN st.entities[label]
        entities_ == IF stored THEN st.entities
                     ELSE [st.entities EXCEPT ![label] = dict_update(@, [k \in {id} |-> entity])]
    IN [st EXCEPT !.entities = entities_,
                  !.log = IF stored THEN [st.log EXCEPT !.different = @ + 1] ELSE st.log,
                  !.err = "none", !.val = entities_[label][id], !.made = entity]

\* the store step of _create: an id already in ENTITIES keeps its entity (a
\* message is logged when the new one differs), a new id is inserted; the
\* stored entity is returned
create_store(st, label, entity) ==
    LET id == dict_get(entity, "~id")
        stored == id \in DOMAIN st.entities[label]
        different == stored /\ st.entities[label][id] # entity
        entities_ == IF stored THEN st.entities
                     ELSE [st.entities EXCEPT ![label] = dict_update(@, [k \in {id} |-> entity])]
    IN [st EXCEPT !.entities = entities_,
                  !.log = IF different THEN [st.log EXCEPT !.different = @ + 1] ELSE st.log,
                  !.err = "none", !.val = entities_[label][id], !.made = entity]

\* _create from "if existing_key not in _existing[_type]" on: entity is
\* what Type.create made
create_made(st, label, existing_key, entity) ==
    IF entity.err # "none"
    THEN [st EXCEPT !.err = entity.err, !.val = None, !.made = None]
    ELSE create_store(
             [st EXCEPT !.existing =
                 IF existing_key \in DOMAIN @[label] THEN @
                 ELSE create_register(@, label, existing_key, entity.val)],
             label, entity.val)

\* _create from "if existing_key in _existing[_type]" on
create_keyed(st, label, type, kwargs, existing_key) ==
    IF existing_key.err # "none"
    THEN [st EXCEPT !.err = existing_key.err, !.val = None, !.made = None]
    ELSE create_made(st, label, existing_key.val,
                     Type_create(type,
                                 IF existing_key.val \in DOMAIN st.existing[label]
                                 THEN create_overlay(type, kwargs,
                                                     st.existing[label][existing_key.val])
                                 ELSE kwargs))

\* _GetGraph._create on the maps of st; the result carries the maps as the
\* call leaves them, the returned entity (val), the entity Type.create made
\* (made) and the count of the messages logged so far, by kind
create_of_type(st, label, type, kwargs) ==
    create_keyed(st, label, type, kwargs, get_existing_key(type, kwargs))

create(shard_, st, label, kwargs) == create_of_type(st, label, TypeOfLabel(shard_, label), kwargs)

\* the messages the converter logs, counted by kind: "we already have a
\* type ... that is different" (different), "... is not a real app but it
\* was marked as owner" (owner_not_app) and "... is not a real Application,
\* nor can we find a User to be an Owner" (no_owner)
new_log == [different |-> 0, owner_not_app |-> 0, no_owner |-> 0]

new_state == [entities |-> new_entities, existing |-> new_existing, log |-> new_log,
              err |-> "none", val |-> None, made |-> None]

\* _FetchExisting._fake_into_existing_vertexes_for_testing and
\* _fake_into_existing_edges_for_testing: the record a previous run persisted
fake_into_existing_for_testing(shard_, existing_, label, kwargs) ==
    LET put(key, entity) ==
            [existing_ EXCEPT ![label] = dict_update(@, [k \in {key} |-> entity])]
        made_(type, entity) == put(get_existing_key(type, entity).val, entity)
        of_type(type) ==
            made_(type, Type_create(type, dict_update(kwargs,
                                                      [n \in {"~label"} |-> PyStr(label)])).val)
    IN of_type(TypeOfLabel(shard_, label))

RECURSIVE fake_all_into_existing(_, _, _)
fake_all_into_existing(shard_, existing_, records) ==
    IF records = {} THEN existing_
    ELSE LET r == CHOOSE r \in records : TRUE
         IN fake_all_into_existing(
                shard_, fake_into_existing_for_testing(shard_, existing_, r.label, r.kwargs),
                records \ {r})

\* del d[k]: KeyError when k is no key of d
py_del(d, k) == IF k \in DOMAIN d THEN Ok(dict_del(d, {k})) ELSE Raise("KeyError")

\* a mutation of expire_edges_of_type: an edge whose id is in entities is
\* deleted from entities, any other is skipped
RECURSIVE expire_edges_of_type_in_entities(_, _)
expire_edges_of_type_in_entities(entities_of_type, to_visit) ==
    IF to_visit = {} THEN Ok(entities_of_type)
    ELSE LET entity == CHOOSE e \in to_visit : TRUE
         IN expire_edges_of_type_in_entities(dict_del(entities_of_type, {entity["~id"]}),
                                             to_visit \ {entity})

\* the inner loop of expire_previously_existing over the existing edges of
\* one type still to visit: an edge whose id is in entities is skipped, any
\* other is deleted from entities
RECURSIVE expire_edges_of_type(_, _)
expire_edges_of_type(entities_of_type, to_visit) ==
    IF to_visit = {} THEN Ok(entities_of_type)
    ELSE LET entity == CHOOSE e \in to_visit : TRUE
             entity_id == entity["~id"]
             deleted == py_del(entities_of_type, entity_id)
         IN IF entity_id \in DOMAIN entities_of_type
            THEN expire_edges_of_type(entities_of_type, to_visit \ {entity})
            ELSE IF deleted.err # "none" THEN [err |-> deleted.err, val |-> entities_of_type]
            ELSE expire_edges_of_type(deleted.val, to_visit \ {entity})

\* _GetGraph.expire_previously_existing(edge_types, entities, existing)
RECURSIVE expire_previously_existing(_, _)
expire_previously_existing(st, edge_types) ==
    IF edge_types = {} THEN [st EXCEPT !.err = "none", !.val = None, !.made = None]
    ELSE LET edge_type == CHOOSE l \in edge_types : TRUE
             expired == expire_edges_of_type(st.entities[edge_type],
                                             dict_values(st.existing[edge_type]))
         IN IF expired.err # "none"
            THEN [st EXCEPT !.entities[edge_type] = expired.val, !.err = expired.err,
                            !.val = None, !.made = None]
            ELSE expire_previously_existing([st EXCEPT !.entities[edge_type] = expired.val],
                                            edge_types \ {edge_type})

\* ------------------------------------------------------------------------
\* gremlin_shared.py: the uris
\* ------------------------------------------------------------------------
make_database_uri(database_name) == "database://" \o database_name
make_cluster_uri(database_name, cluster_name) == database_name \o "://" \o cluster_name
make_schema_uri(cluster_uri, schema_name) == cluster_uri \o "." \o schema_name
make_table_uri(schema_uri, table_name) == schema_uri \o "/" \o table_name
make_description_uri(subject_uri, source) == subject_uri \o "/" \o source \o "/_description"
make_column_uri(table_uri, column_name) == table_uri \o "/" \o column_name
make_column_statistic_uri(column_uri, statistic_type) == column_uri \o "/stat/" \o statistic_type

\* make_cluster_uri(database_uri=...) takes the database name back out of
\* the uri: what follows the last "://"
RECURSIVE rsubstringstartingwith(_, _)
rsubstringstartingwith(sub, s) ==
    IF Len(s) < Len(sub) THEN None
    ELSE LET tail == rsubstringstartingwith(sub, SubSeq(s, 2, Len(s)))
         IN IF tail # None THEN tail
            ELSE IF SubSeq(s, 1, Len(sub)) = sub
                 THEN PyStr(SubSeq(s, Len(sub) + 1, Len(s)))
                 ELSE None

get_database_name_from_uri(database_uri) == rsubstringstartingwith("://", database_uri)[2]

TableUris_get(database, cluster, schema, table) ==
    LET database_uri == make_database_uri(database)
        cluster_uri == make_cluster_uri(get_database_name_from_uri(database_uri), cluster)
        schema_uri == make_schema_uri(cluster_uri, schema)
        table_uri == make_table_uri(schema_uri, table)
    IN [database |-> database_uri, cluster |-> cluster_uri,
        schema |-> schema_uri, table |-> table_uri]

\* ------------------------------------------------------------------------
\* gremlin_model_converter.py: the names an application key may go by
\* ------------------------------------------------------------------------
HISTORICAL_APP_PREFIX == "app-"
ENVIRONMENT_APP_SUFFIXES ==
    {"-development", "-devel", "-staging", "-stage", "-production", "-prod"}

startswith(s, prefix) == Len(s) >= Len(prefix) /\ SubSeq(s, 1, Len(prefix)) = prefix
endswith(s, suffix) ==
    Len(s) >= Len(suffix) /\ SubSeq(s, Len(s) - Len(suffix) + 1, Len(s)) = suffix

\* a mutation of possible_application_names_application_key: the key and
\* the key without its suffix, and no toggling of app-
possible_application_names_as_given(app_key) ==
    <<app_key>>
    \o (IF \E suffix \in ENVIRONMENT_APP_SUFFIXES : endswith(app_key, suffix)
        THEN <<SubSeq(app_key, 1,
                      Len(app_key) - Len(CHOOSE suffix \in ENVIRONMENT_APP_SUFFIXES :
                                             endswith(app_key, suffix)))>>
        ELSE <<>>)

\* _[:-len(suffix)]
without_suffix(app_key, suffix) ==
    IF Len(app_key) > Len(suffix) THEN SubSeq(app_key, 1, Len(app_key) - Len(suffix)) ELSE ""

\* the tuple the function returns; no key ends with two of the suffixes, so
\* the order in which the frozenset is gone through makes no difference
possible_application_names_application_key(app_key) ==
    LET app_keys == <<app_key,
                      IF startswith(app_key, HISTORICAL_APP_PREFIX)
                      THEN SubSeq(app_key, Len(HISTORICAL_APP_PREFIX) + 1, Len(app_key))
                      ELSE HISTORICAL_APP_PREFIX \o app_key>>
        suffixes == {suffix \in ENVIRONMENT_APP_SUFFIXES : endswith(app_key, suffix)}
    IN IF suffixes = {} THEN app_keys
       ELSE app_keys \o [i \in DOMAIN app_keys |->
                            without_suffix(app_keys[i], CHOOSE x \in suffixes : TRUE)]

possible_existing_keys_for_application_key(shard_, app_key) ==
    {get_existing_key(TypeOfLabel(shard_, "Application"), [n \in {"key"} |-> PyStr(key)]).val :
        key \in Range(possible_application_names_application_key(app_key))}

\* a frozenset of (name, value) pairs as the dict that dict(v) makes of it
dict_of_pairs(pairs) ==
    [n \in {pair[1] : pair \in pairs} |-> PyStr((CHOOSE pair \in pairs : pair[1] = n)[2])]

possible_vertex_ids_for_application_key(shard_, app_key) ==
    {VertexType_id(TypeOfLabel(shard_, "Application"), dict_of_pairs(key)).val :
        key \in possible_existing_keys_for_application_key(shard_, app_key)}

\* ------------------------------------------------------------------------
\* gremlin_model_converter.py: _GetGraph, from the models to the entities
\* ------------------------------------------------------------------------
\* VertexTypes.<label>.value.id(key=key)
vertex_id(shard_, label, key) ==
    Type_id(TypeOfLabel(shard_, label), [n \in {"key"} |-> PyStr(key)]).val

\* the next _create of a method: nothing more is done once a call raised
create_next(shard_, st, label, kwargs) ==
    IF st.err # "none" THEN st ELSE create(shard_, st, label, kwargs)

\* cls._create(edge type, entities, existing, created=created_at,
\*             **{FROM: from_id, TO: to_id})
create_edge(shard_, st, label, created_at_, from_id, to_id) ==
    create_next(shard_, st, label,
                ("created" :> created_at_) @@ ("~from" :> from_id) @@ ("~to" :> to_id))

\* the local variable a method keeps a vertex in, while more is created
returning(st, vertex) == IF st.err # "none" THEN st ELSE [st EXCEPT !.val = vertex]

\* the edge from from_id to the vertex that the last _create returned; val
\* stays that vertex
create_edge_to(shard_, st, label, created_at_, from_id) ==
    returning(create_edge(shard_, st, label, created_at_, from_id, st.val["~id"]), st.val)

\* the edge from the vertex that the last _create returned to to_id
create_edge_from(shard_, st, label, created_at_, to_id) ==
    create_edge(shard_, st, label, created_at_, st.val["~id"], to_id)

\* a vertex and the edge to it from from_id; val is the vertex
create_under(shard_, st, from_id, label, kwargs, edge_label, created_at_) ==
    create_edge_to(shard_, create_next(shard_, st, label, kwargs), edge_label, created_at_,
                   from_id)

\* a vertex and the edge to it from the vertex that the last _create
\* returned; val is the new vertex
create_below(shard_, st, label, kwargs, edge_label, created_at_) ==
    create_under(shard_, st, st.val["~id"], label, kwargs, edge_label, created_at_)

\* list(d.items())[0][0] of a dict built from a frozenset: the key that the
\* iteration over the frozenset meets first.  order is the order in which
\* this process iterates over the application names.
first_key(order, names) ==
    order[CHOOSE i \in 1..Len(order) :
              /\ order[i] \in names
              /\ \A j \in 1..Len(order) : order[j] \in names => i <= j]

\* the names of actual_keys: the possible names of the app that EXISTING has
\* an Application for
application_names_in_existing(shard_, existing_, app_key) ==
    {name \in Range(possible_application_names_application_key(app_key)) :
        get_existing_key(TypeOfLabel(shard_, "Application"),
                         [n \in {"key"} |-> PyStr(name)]).val
            \in DOMAIN existing_["Application"]}

\* _application_entities from "if app isn't found" on
owner_entities(shard_, st, app_key, table, created_at_) ==
    IF get_existing_key(TypeOfLabel(shard_, "User"), [n \in {"key"} |-> PyStr(app_key)]).val
           \in DOMAIN st.existing["User"]
    THEN create_edge(shard_, [st EXCEPT !.log.owner_not_app = @ + 1], "OWNER", created_at_,
                     table["~id"], PyStr(vertex_id(shard_, "User", app_key)))
    ELSE [st EXCEPT !.log.no_owner = @ + 1]

\* _application_entities with the two lookups the other way round: the
\* user first, the applications if there is no such user
application_entities_user_first(shard_, st, app_key, table, created_at_, order) ==
    IF st.err # "none" THEN st
    ELSE IF get_existing_key(TypeOfLabel(shard_, "User"),
                             [n \in {"key"} |-> PyStr(app_key)]).val
                \in DOMAIN st.existing["User"]
    THEN owner_entities(shard_, st, app_key, table, created_at_)
    ELSE IF application_names_in_existing(shard_, st.existing, app_key) # {}
    THEN create_edge(shard_, st, "GENERATES", created_at_,
                     PyStr(vertex_id(shard_, "Application",
                               first_key(order, application_names_in_existing(
                                                    shard_, st.existing, app_key)))),
                     table["~id"])
    ELSE [st EXCEPT !.log.no_owner = @ + 1]

application_entities(shard_, st, app_key, table, created_at_, order) ==
    IF st.err # "none" THEN st
    ELSE IF application_names_in_existing(shard_, st.existing, app_key) # {}
    THEN create_edge(shard_, st, "GENERATES", created_at_,
                     PyStr(vertex_id(shard_, "Application",
                               first_key(order, application_names_in_existing(
                                                    shard_, st.existing, app_key)))),
                     table["~id"])
    ELSE owner_entities(shard_, st, app_key, table, created_at_)

description_entities(shard_, st, description, source, subject_uri, to_vertex_id, created_at_) ==
    create_under(shard_, st, to_vertex_id, "Description",
                 [key |-> PyStr(make_description_uri(subject_uri, source)),
                  description |-> PyStr(description),
                  description_source |-> PyStr(source)],
                 "DESCRIPTION", created_at_)

\* if description is not None: the description of source 'user' of a table
\* or a column
user_description_entities(shard_, st, description, subject, created_at_) ==
    IF description # None /\ st.err = "none"
    THEN description_entities(shard_, st, description[2], "user", subject["key"][2],
                              subject["~id"], created_at_)
    ELSE st

RECURSIVE programmatic_description_entities(_, _, _, _, _)
programmatic_description_entities(shard_, st, descriptions, table_vertex, created_at_) ==
    IF descriptions = <<>> \/ st.err # "none" THEN st
    ELSE programmatic_description_entities(
             shard_,
             description_entities(shard_, st, Head(descriptions).text, Head(descriptions).source,
                                  table_vertex["key"][2], table_vertex["~id"], created_at_),
             Tail(descriptions), table_vertex, created_at_)

\* the loop over table.tags
RECURSIVE tag_entities(_, _, _, _, _)
tag_entities(shard_, st, tags, table_vertex, created_at_) ==
    IF tags = <<>> \/ st.err # "none" THEN st
    ELSE tag_entities(
             shard_,
             create_edge_from(shard_,
                 create_next(shard_, st, "Tag",
                     [key |-> PyStr(Head(tags).tag_name), tag_name |-> PyStr(Head(tags).tag_name),
                      tag_type |-> PyStr(Head(tags).tag_type)]),
                 "TAG", created_at_, table_vertex["~id"]),
             Tail(tags), table_vertex, created_at_)

\* the loop over column.stats
RECURSIVE stat_entities(_, _, _, _, _)
stat_entities(shard_, st, stats, column_vertex, created_at_) ==
    IF stats = <<>> \/ st.err # "none" THEN st
    ELSE stat_entities(
             shard_,
             create_under(shard_, st, column_vertex["~id"], "Stat",
                 [key |-> PyStr(make_column_statistic_uri(column_vertex["key"][2],
                                                          Head(stats).stat_type)),
                  stat_val |-> IF Head(stats).stat_val = None THEN None
                               ELSE PyStr(py_str(Head(stats).stat_val)),
                  stat_type |-> PyStr(Head(stats).stat_type),
                  start_epoch |-> Head(stats).start_epoch,
                  end_epoch |-> Head(stats).end_epoch],
                 "STAT", created_at_),
             Tail(stats), column_vertex, created_at_)

\* one turn of the loop of _column_entities, once the column vertex (val of
\* st) and the edge to it are there
column_entities_of(shard_, st, column, created_at_) ==
    IF st.err # "none" THEN st
    ELSE stat_entities(shard_,
                       user_description_entities(shard_, st, column.description, st.val,
                                                 created_at_),
                       column.stats, st.val, created_at_)

RECURSIVE column_entities(_, _, _, _, _)
column_entities(shard_, st, column_data, table_vertex, created_at_) ==
    IF column_data = <<>> \/ st.err # "none" THEN st
    ELSE column_entities(
             shard_,
             column_entities_of(
                 shard_,
                 create_under(shard_, st, table_vertex["~id"], "Column",
                     [name |-> PyStr(Head(column_data).name),
                      key |-> PyStr(make_column_uri(table_vertex["key"][2],
                                                    Head(column_data).name)),
                      col_type |-> PyStr(Head(column_data).col_type),
                      sort_order |-> PyInt(Head(column_data).sort_order)],
                     "COLUMN", created_at_),
                 Head(column_data), created_at_),
             Tail(column_data), table_vertex, created_at_)

\* the vertexes and edges from the database down to the table; val is the
\* table vertex
table_path_entities(shard_, st, table, uris, created_at_) ==
    create_below(shard_,
        create_below(shard_,
            create_below(shard_,
                create_next(shard_, st, "Database",
                            [name |-> PyStr(table.database), key |-> PyStr(uris.database)]),
                "Cluster", [name |-> PyStr(table.cluster), key |-> PyStr(uris.cluster)],
                "CLUSTER", created_at_),
            "Schema", [name |-> PyStr(table.schema), key |-> PyStr(uris.schema)],
            "SCHEMA", created_at_),
        "Table", [name |-> PyStr(table.name), key |-> PyStr(uris.table),
                  is_view |-> PyBool(table.is_view)],
        "TABLE", created_at_)

\* the global and the table's own Updatedtimestamp
timestamp_entities(shard_, st, table_vertex, created_at_) ==
    create_under(shard_,
        create_next(shard_, st, "Updatedtimestamp",
                    [key |-> PyStr("amundsen_updated_timestamp"),
                     latest_timestamp |-> created_at_]),
        table_vertex["~id"], "Updatedtimestamp",
        [key |-> table_vertex["key"], latest_timestamp |-> created_at_],
        "LAST_UPDATED_AT", created_at_)

\* if table.table_writer: _application_entities(app_key=table.table_writer.id)
writer_entities(shard_, st, table_writer, table_vertex, created_at_, order) ==
    IF table_writer # None
    THEN application_entities(shard_, st, table_writer[2], table_vertex, created_at_, order)
    ELSE st

\* one turn of the loop of table_entities, once the table vertex (val of
\* st) and what is above it are there
table_entities_of(shard_, st, table, created_at_, order) ==
    IF st.err # "none" THEN st
    ELSE column_entities(
             shard_,
             timestamp_entities(
                 shard_,
                 tag_entities(
                     shard_,
                     programmatic_description_entities(
                         shard_,
                         user_description_entities(
                             shard_,
                             writer_entities(shard_, st, table.table_writer, st.val,
                                             created_at_, order),
                             table.description, st.val, created_at_),
                         table.programmatic_descriptions, st.val, created_at_),
                     table.tags, st.val, created_at_),
                 st.val, created_at_),
             table.columns, st.val, created_at_)

\* _GetGraph.table_entities(table_data, entities, existing, created_at);
\* the method returns None
RECURSIVE table_entities(_, _, _, _, _)
table_entities(shard_, st, table_data, created_at_, order) ==
    IF st.err # "none" THEN st
    ELSE IF table_data = <<>> THEN [st EXCEPT !.val = None, !.made = None]
    ELSE table_entities(
             shard_,
             table_entities_of(
                 shard_,
                 table_path_entities(
                     shard_, st, Head(table_data),
                     TableUris_get(Head(table_data).database, Head(table_data).cluster,
                                   Head(table_data).schema, Head(table_data).name),
                     created_at_),
                 Head(table_data), created_at_, order),
             Tail(table_data), created_at_, order)

\* _GetGraph.user_entities: key=user.user_id and vars(user) but for
\* other_key_values
RECURSIVE user_entities(_, _, _)
user_entities(shard_, st, user_data) ==
    IF st.err # "none" THEN st
    ELSE IF user_data = <<>> THEN [st EXCEPT !.val = None, !.made = None]
    ELSE user_entities(shard_,
             create(shard_, st, "User",
                    dict_update(dict_del(Head(user_data), {"other_key_values"}),
                                [n \in {"key"} |-> Head(user_data)["user_id"]])),
             Tail(user_data))

\* _GetGraph.app_entities: key=app.id and vars(app)
RECURSIVE app_entities(_, _, _)
app_entities(shard_, st, app_data) ==
    IF st.err # "none" THEN st
    ELSE IF app_data = <<>> THEN [st EXCEPT !.val = None, !.made = None]
    ELSE app_entities(shard_,
             create(shard_, st, "Application",
                    dict_update(Head(app_data), [n \in {"key"} |-> Head(app_data)["id"]])),
             Tail(app_data))

\* ------------------------------------------------------------------------
\* gremlin_model_converter.py: _FetchExisting, from the graph store to EXISTING.
\* The store is the set of the vertexes and edges loaded into it, each as
\* the entity it was loaded from.
\* ------------------------------------------------------------------------
\* a value as it comes back from the store: a date was written in the
\* format of its typer, to the second
stored_value(v) == IF TypeOf(v) = "datetime" THEN <<"datetime", v[2], v[3], 0, v[5]>> ELSE v
stored_entity(entity) == [n \in DOMAIN entity |-> stored_value(entity[n])]
\* ENTITIES as the bulk load puts them into the store
stored_entities(entities_) ==
    UNION {{stored_entity(e) : e \in dict_values(entities_[l])} : l \in Labels}

PyList(values) == <<"list", values>>
FrozenSet(values) == <<"frozenset", values>>

store_V(store_) == {e \in store_ : e["~label"][2] \in VertexLabels}
store_E(store_) == {e \in store_ : e["~label"][2] \in EdgeLabels}
V(store_, ids) == {v \in store_V(store_) : v["~id"][2] \in ids}
hasLabel(elements, label) == {e \in elements : e["~label"][2] = label}
inE(store_, vertexes, labels) ==
    {e \in store_E(store_) :
        e["~label"][2] \in labels /\ \E v \in vertexes : e["~to"] = v["~id"]}
outE(store_, vertexes, labels) ==
    {e \in store_E(store_) :
        e["~label"][2] \in labels /\ \E v \in vertexes : e["~from"] = v["~id"]}
bothE(store_, vertexes) ==
    {e \in store_E(store_) : \E v \in vertexes : e["~from"] = v["~id"] \/ e["~to"] = v["~id"]}
outV(store_, edges) == {v \in store_V(store_) : \E e \in edges : e["~from"] = v["~id"]}
inV(store_, edges) == {v \in store_V(store_) : \E e \in edges : e["~to"] = v["~id"]}

\* valueMap(True) of a vertex: every property comes as the list of its values
valueMap(vertex) ==
    [n \in DOMAIN vertex |-> IF n \in {"~id", "~label"} THEN vertex[n] ELSE PyList(<<vertex[n]>>)]

honor_cardinality_once(property, value) ==
    IF property.cardinality \in {"single", "None"}
    THEN IF TypeOf(value) = "list"
         THEN (IF Len(value[2]) > 1 THEN Raise("AssertionError")
               ELSE Ok(IF value[2] = <<>> THEN None ELSE value[2][1]))
         ELSE Ok(value)
    ELSE IF property.cardinality = "list"
    THEN Ok(IF value = None THEN PyList(<<>>) ELSE value)
    ELSE Ok(IF value = None THEN FrozenSet({})
            ELSE IF TypeOf(value) = "list"
                 THEN FrozenSet({value[2][i] : i \in 1..Len(value[2])})
                 ELSE value)

\* a property the type does not have is logged and left out
honor_cardinality(type, entity) ==
    LET known == DOMAIN entity \cap names_of(type.properties)
        honored == [k \in known |-> honor_cardinality_once(properties_as_map(type)[k], entity[k])]
    IN IF \E k \in known : honored[k].err # "none" THEN Raise("AssertionError")
       ELSE Ok([k \in known |-> honored[k].val])

\* _into_existing from "if existing_key in existing[_type]" on: the first
\* record of a key is kept
into_existing_keyed(st, label, key, entity) ==
    IF key.err # "none" THEN [st EXCEPT !.err = key.err]
    ELSE IF key.val \in DOMAIN st.existing[label]
    THEN (IF st.existing[label][key.val] # entity
          THEN [st EXCEPT !.log.different = @ + 1] ELSE st)
    ELSE [st EXCEPT !.existing[label] = dict_update(@, [k \in {key.val} |-> entity])]

\* _into_existing once the entity is made again
into_existing_made(st, type, entity) ==
    IF entity.err # "none" THEN [st EXCEPT !.err = entity.err]
    ELSE into_existing_keyed(st, type.label, get_existing_key(type, entity.val), entity.val)

\* _into_existing once the cardinalities are honored: the entity is made
\* again with the label and the id the store gave
into_existing_honored(st, type, element, honored) ==
    IF honored.err # "none" THEN [st EXCEPT !.err = honored.err]
    ELSE into_existing_made(
             st, type,
             Type_create(type, dict_update(honored.val,
                                           ("~label" :> element["~label"])
                                               @@ ("~id" :> element["~id"]))))

\* _into_existing for one value map of the type: an edge comes as it is, a
\* vertex with each property as the list of its values
into_existing_of_type(st, type, element) ==
    into_existing_honored(
        st, type, element,
        IF type.kind = "EdgeType" THEN Ok(dict_del(element, {"~id", "~label"}))
        ELSE honor_cardinality(type, dict_del(valueMap(element), {"~id", "~label"})))

into_existing_one(shard_, st, element) ==
    IF st.err # "none" THEN st
    ELSE into_existing_of_type(st, TypeOfLabel(shard_, element["~label"][2]), element)

RECURSIVE into_existing(_, _, _)
into_existing(shard_, st, elements) ==
    IF elements = {} \/ st.err # "none" THEN st
    ELSE LET element == CHOOSE e \in elements : TRUE
         IN into_existing(shard_, into_existing_one(shard_, st, element), elements \ {element})

table_uri_of(table) == TableUris_get(table.database, table.cluster, table.schema, table.name).table
writers_of(table_data) ==
    {table_data[i].table_writer[2] :
        i \in {j \in 1..Len(table_data) : table_data[j].table_writer # None}}

\* the TABLE edges into the tables and the SCHEMA and CLUSTER edges above
schema_edges_above(store_, table_edges) ==
    inE(store_, hasLabel(outV(store_, table_edges), "Schema"), {"SCHEMA"})
cluster_edges_above(store_, table_edges) ==
    inE(store_, hasLabel(outV(store_, schema_edges_above(store_, table_edges)), "Cluster"),
        {"CLUSTER"})
path_edges(store_, tables) ==
    inE(store_, tables, {"TABLE"})
        \cup schema_edges_above(store_, inE(store_, tables, {"TABLE"}))
        \cup cluster_edges_above(store_, inE(store_, tables, {"TABLE"}))

\* _FetchExisting.table_entities once the table vertexes are found
fetch_around_tables(shard_, store_, st, tables, vertex_ids) ==
    into_existing(
        shard_,
        into_existing(
            shard_,
            into_existing(
                shard_, st,
                path_edges(store_, tables)
                    \cup inE(store_, tables, {"BELONG_TO_TABLE", "GENERATES", "TAG"})
                    \cup outE(store_, tables,
                              {"COLUMN", "DESCRIPTION", "LAST_UPDATED_AT", "SOURCE", "STAT"})),
            \* _column_entities
            outE(store_, hasLabel(inV(store_, outE(store_, tables, {"COLUMN"})), "Column"),
                 {"DESCRIPTION"})),
        V(store_, vertex_ids))

\* _FetchExisting.table_entities and _column_entities: the edges around the
\* tables of table_data, the edges from their columns to the descriptions,
\* and the Application and User vertexes that their writers may be
fetch_table_entities(shard_, store_, st, table_data) ==
    fetch_around_tables(
        shard_, store_, st,
        V(store_, {vertex_id(shard_, "Table", table_uri_of(table_data[i])) :
                      i \in 1..Len(table_data)}),
        UNION {possible_vertex_ids_for_application_key(shard_, key) :
                  key \in writers_of(table_data)}
            \cup {vertex_id(shard_, "User", key) : key \in writers_of(table_data)})

\* _FetchExisting.expire_connections_for_other: every edge at a vertex of
\* the type that has edges and whose key is not among keys
fetch_expire_connections_for_other(shard_, store_, st, label, keys) ==
    LET connected == {v \in hasLabel(store_V(store_), label) : bothE(store_, {v}) # {}}
        all_to_expire_keys == {v["key"][2] : v \in connected} \ keys
        all_to_expire == {vertex_id(shard_, label, key) : key \in all_to_expire_keys}
    IN into_existing(shard_, st, bothE(store_, V(store_, all_to_expire)))

\* the return of a GetGraph method that returns entities
returning_entities(st) ==
    IF st.err # "none" THEN [st EXCEPT !.val = None] ELSE [st EXCEPT !.val = st.entities]

\* expire_previously_existing(edge_types=tuple(t for t in EdgeTypes), ...)
expire_all_previously_existing(st) ==
    IF st.err # "none" THEN st ELSE expire_previously_existing(st, EdgeLabels)

\* GetGraph.expire_connections_for_other(vertex_type, keys, g): ENTITIES
\* and EXISTING of its own; what it returns is in val
expire_connections_for_other(shard_, store_, label, keys) ==
    returning_entities(
        expire_all_previously_existing(
            fetch_expire_connections_for_other(shard_, store_, new_state, label, keys)))

\* GetGraph.add_table_entities, but for the registration of its pass
add_table_entities(shard_, store_, st, table_data, created_at_, order) ==
    table_entities(shard_, fetch_table_entities(shard_, store_, st, table_data),
                   table_data, created_at_, order)

\* the expiration passes by the add-* call that registers them
expire_previously_existing_callable(st, pass) ==
    IF pass = "table" THEN expire_previously_existing(st, {"COLUMN", "GENERATES", "OWNER"})
    ELSE st

\* the loop of GetGraph.complete over the registered passes: ran is the
\* sequence of the passes called so far
RECURSIVE run_callables(_, _, _)
run_callables(st, callables_, ran) ==
    IF callables_ = <<>> \/ st.err # "none" THEN [st |-> st, ran |-> ran]
    ELSE run_callables(expire_previously_existing_callable(st, Head(callables_)),
                       Tail(callables_), Append(ran, Head(callables_)))

\* ------------------------------------------------------------------------
\* The state: one run of the converter
\* ------------------------------------------------------------------------
VARIABLES
    shard,      \* what get_shard() returned when the schema was constructed
    entities,   \* ENTITIES of this run
    existing,   \* EXISTING of this run
    log,        \* the messages logged so far, counted by kind
    op,         \* the last call: its name and arguments
    err,        \* the exception the last call raised, "none" if it returned
    ret,        \* what the last call returned (None if it raised)
    made,       \* the entity Type.create built in the last _create call
    repeated,   \* the last call had the name and arguments of the one before
    store,      \* the graph store: the entities loaded into it so far
    created_at, \* GetGraph.created_at, the created_at of the run
    callables,  \* GetGraph._expire_previously_existing_callables
    passes,     \* the expiration passes that complete() has called
    completed,  \* complete() has deleted self.entities and self.existing
    run,        \* which of two runs over the same data this is (1, 2)
    pc,         \* the next step of that run
    data,       \* the models both runs are given
    first,      \* ENTITIES as the first of the two runs left them
    _shard,     \* test_and_development_shard._shard
    _shard_used, \* test_and_development_shard._shard_used
    _shard_lock, \* the threads that hold _shard_lock: one or none
    threads,    \* the threads that call into the module: call, position, result
    gets,       \* the values that get_shard has returned so far
    sets,       \* how many calls of shard_set_explicitly have returned normally
    csvs,       \* bulk_load_entities: the s3 object keys still to upload and load
    todo,       \* bulk_load_entities: the load ids still to poll
    status_by_load_id, \* bulk_load_entities: the last status seen of each load
    loads,      \* Neptune: the status of every load job submitted to it
    load_pc,    \* the next step of bulk_load_entities
    warnings,   \* the warnings bulk_load_entities has logged: the failed ids of each
    polls,      \* the load ids polled after they had been seen to be terminal
    stream,     \* the values the iterable under the PeekingIterator yields
    it,         \* PeekingIterator.it: the values it has not yielded yet
    has_peeked_value, \* PeekingIterator.has_peeked_value
    peeked_value, \* PeekingIterator.peeked_value
    taken,      \* the values handed out so far, by __next__ or take_peeked
    consumer_calls, \* the chunks the consumer has been called with
    consuming,  \* the frame of a running consume_in_chunks: position and locals
    locked,       \* PeekingIterator.lock is held
    frames      \* the calls in progress on the iterator, a stack for each caller

converter_vars == <<shard, entities, existing, log, op, err, ret, made, repeated>>
graph_vars == <<store, created_at, callables, passes, completed>>
runs_vars == <<run, pc, data, first>>
module_vars == <<_shard, _shard_used, _shard_lock, threads, gets, sets>>
loader_vars == <<csvs, todo, status_by_load_id, loads, load_pc, warnings, polls>>
stream_vars ==
    <<stream, it, has_peeked_value, peeked_value, taken, consumer_calls, consuming, locked, frames>>
vars == <<converter_vars, graph_vars, runs_vars, module_vars, loader_vars, stream_vars>>

\* ---- bounds of the model ----
MaxLog == 2

\* created of the records an earlier run persisted, and the created_at
\* values that the calls of this run pass
PreviousCreated == DateTime(1, 50, 0)
CreatedAts == {DateTime(2, 60, 5), DateTime(3, 10, 0)}
ClusterKeys == {"k1", "k2"}
ClusterNames == {"n1", "n2", "n3"}

\* the raw properties the callers of _create pass for a Cluster vertex ...
ClusterInputs ==
    {[label |-> "Cluster", kwargs |-> [name |-> PyStr(n), key |-> PyStr("k1")]] :
        n \in ClusterNames}
\* ... and for a CLUSTER edge from the Database d to one of the clusters
ClusterEdgeInputs(shard_) ==
    {[label |-> "CLUSTER",
      kwargs |-> ("created" :> c) @@ ("~from" :> PyStr(vertex_id(shard_, "Database", "d")))
                 @@ ("~to" :> PyStr(vertex_id(shard_, "Cluster", k)))] :
        c \in CreatedAts, k \in ClusterKeys}
\* calls that a caller bug makes: a required property or the key is missing
MalformedInputs ==
    {[label |-> "Cluster", kwargs |-> [key |-> PyStr("k1")]],
     [label |-> "Cluster", kwargs |-> [name |-> PyStr("n1")]]}

CreateInputs(shard_) == ClusterInputs \cup ClusterEdgeInputs(shard_) \cup MalformedInputs

\* what an earlier run may have persisted and the fetch put into EXISTING
PersistedRecords(shard_) ==
    {[label |-> "Cluster", kwargs |-> [name |-> PyStr("n1"), key |-> PyStr("k1")]],
     [label |-> "CLUSTER",
      kwargs |-> ("created" :> PreviousCreated)
                 @@ ("~from" :> PyStr(vertex_id(shard_, "Database", "d")))
                 @@ ("~to" :> PyStr(vertex_id(shard_, "Cluster", "k1")))]}

ExpireInputs == {{"CLUSTER"}, {"COLUMN", "GENERATES", "OWNER"}}

NoOp == [name |-> "none"]

\* no GetGraph is at work
no_graph ==
    /\ store = {}
    /\ created_at = None
    /\ callables = <<>>
    /\ passes = <<>>
    /\ completed = FALSE

\* no pair of runs is at work
no_runs ==
    /\ run = 0
    /\ pc = "none"
    /\ data = None
    /\ first = None

\* no thread is in test_and_development_shard: the schema was built under
\* shard, which get_shard returned when gremlin_model was imported
no_threads ==
    /\ _shard = shard
    /\ _shard_used = TRUE
    /\ _shard_lock = {}
    /\ threads = <<>>
    /\ gets = {shard}
    /\ sets = 0

\* no bulk_load_entities is at work
no_loader ==
    /\ csvs = <<>>
    /\ todo = <<>>
    /\ status_by_load_id = EmptyDict
    /\ loads = EmptyDict
    /\ load_pc = "none"
    /\ warnings = <<>>
    /\ polls = {}

\* no PeekingIterator has been made
no_streams ==
    /\ stream = <<>>
    /\ it = <<>>
    /\ has_peeked_value = FALSE
    /\ peeked_value = None
    /\ taken = <<>>
    /\ consumer_calls = <<>>
    /\ consuming = [pc |-> "idle"]
    /\ locked = FALSE
    /\ frames = <<>>

Init ==
    /\ shard \in Shards
    /\ entities = new_entities
    /\ \E persisted \in SUBSET PersistedRecords(shard) :
          existing = fake_all_into_existing(shard, new_existing, persisted)
    /\ log = new_log
    /\ op = NoOp
    /\ err = "none"
    /\ ret = None
    /\ made = None
    /\ repeated = FALSE
    /\ no_graph
    /\ no_runs
    /\ no_threads
    /\ no_loader
    /\ no_streams

\* what a call starts from: the collections as the calls before it left
\* them, nothing raised and nothing returned yet
current_state == [entities |-> entities, existing |-> existing, log |-> log,
                  err |-> "none", val |-> None, made |-> None]

\* the effect of a call whose result is r and whose name and arguments are o
Called(o, r) ==
    /\ entities' = r.entities
    /\ existing' = r.existing
    /\ log' = r.log
    /\ err' = r.err
    /\ ret' = r.val
    /\ made' = r.made
    /\ op' = o
    /\ repeated' = (o = op)
    /\ UNCHANGED <<shard, module_vars, loader_vars, stream_vars>>

\* _GetGraph._create(_type, _entities, _existing, **_kwargs)
Create ==
    \E input \in CreateInputs(shard) :
        /\ log.different < MaxLog
        /\ Called([name |-> "create", label |-> input.label, kwargs |-> input.kwargs],
                  create(shard, current_state, input.label, input.kwargs))
        /\ UNCHANGED <<graph_vars, runs_vars>>

\* _GetGraph.expire_previously_existing(edge_types=..., entities, existing)
Expire ==
    \E edge_types \in ExpireInputs :
        /\ Called([name |-> "expire", edge_types |-> edge_types],
                  expire_previously_existing(current_state, edge_types))
        /\ UNCHANGED <<graph_vars, runs_vars>>

Next == Create \/ Expire

Spec == Init /\ [][Next]_vars
\* ------------------------------------------------------------------------
\* Properties of _create
\* ------------------------------------------------------------------------
IsCreate(o) == o.name = "create"
existing_key_of(label, entity) == get_existing_key(TypeOfLabel(shard, label), entity)

\* C1: across the create calls of a run an id stored in ENTITIES[type] keeps
\* its content: the first entity created for an id wins, a later creation
\* with that id does not overwrite it, and create returns the stored entity.
C1_FirstEntityWins ==
    [][IsCreate(op') =>
        /\ \A l \in Labels : \A id \in DOMAIN entities[l] :
              id \in DOMAIN entities'[l] /\ entities'[l][id] = entities[l][id]
        /\ err' = "none" =>
              LET l == op'.label
                  id == made'["~id"]
              IN /\ id \in DOMAIN entities'[l]
                 /\ ret' = entities'[l][id]
                 /\ ret' = (IF id \in DOMAIN entities[l] THEN entities[l][id] ELSE made')]_vars

\* a later creation with a stored id and another content returned the first
C1_Witness ==
    /\ IsCreate(op) /\ err = "none"
    /\ made # ret
    /\ entities[op.label][made["~id"]] = ret

\* C2: when the existing-key of the raw properties is in EXISTING[type],
\* the created entity has the existing record's values of the id-format
\* properties and its synthesized id is the id of the existing record.
C2_OverlayKeepsExistingId ==
    [][(IsCreate(op') /\ err' = "none") =>
        LET l == op'.label
            key == existing_key_of(l, op'.kwargs).val
        IN key \in DOMAIN existing[l] =>
              /\ made'["~id"] = existing[l][key]["~id"]
              /\ \A n \in names_of(get_key_properties(TypeOfLabel(shard, l)))
                          \cap DOMAIN existing[l][key] :
                    made'[n] = existing[l][key][n]]_vars

\* an edge was created with another created than its persisted record has
C2_Witness ==
    /\ IsCreate(op) /\ err = "none" /\ op.label = "CLUSTER"
    /\ op.kwargs["created"] \in CreatedAts
    /\ made["created"] = PreviousCreated
    /\ made["~id"] \in DOMAIN entities["CLUSTER"]

\* C3: every entity of ENTITIES is registered in EXISTING[type] under its
\* existing-key with its own id, and ENTITIES[type] holds no two entities
\* with the same existing-key.
C3_OneEntityPerExistingKey ==
    \A l \in Labels :
        /\ \A id \in DOMAIN entities[l] :
              LET key == existing_key_of(l, entities[l][id]).val
              IN key \in DOMAIN existing[l] /\ existing[l][key]["~id"] = id
        /\ \A id1, id2 \in DOMAIN entities[l] :
              existing_key_of(l, entities[l][id1]).val = existing_key_of(l, entities[l][id2]).val
                  => id1 = id2

\* an edge nothing was persisted for was created again with a later created
\* and resolved to the entity of the first creation
C3_Witness ==
    /\ IsCreate(op) /\ err = "none" /\ op.label = "CLUSTER"
    /\ made["created"] \in CreatedAts
    /\ made["created"] # op.kwargs["created"]
    /\ ret = made

\* C4: a create call that repeats the raw properties of the successful call
\* right before it returns the same entity and leaves ENTITIES as the first
\* call left it.
C4_IdempotentCreate ==
    [][(IsCreate(op) /\ err = "none" /\ op' = op) =>
        (err' = "none" /\ ret' = ret /\ entities' = entities)]_vars

C4_Witness ==
    /\ IsCreate(op) /\ err = "none" /\ repeated
    /\ ret["~id"] \in DOMAIN entities[op.label]

WellFormedInputs == ClusterInputs \cup ClusterEdgeInputs(shard)

\* C6: re-creating an id never raises; the id keeps one stored entity, a
\* message is logged exactly when the new content differs from the stored
\* one, and nothing is logged otherwise.
C6_DuplicatesLoggedNotRaised ==
    [][(IsCreate(op') /\ [label |-> op'.label, kwargs |-> op'.kwargs] \in WellFormedInputs) =>
        /\ err' = "none"
        /\ LET l == op'.label
               id == made'["~id"]
               stored == id \in DOMAIN entities[l]
           IN /\ DOMAIN entities'[l] = DOMAIN entities[l] \cup {id}
              /\ log'.different = (IF stored /\ entities[l][id] # made'
                                   THEN log.different + 1 ELSE log.different)]_vars

\* one id created three times with differing content: one entity stored,
\* two messages
C6_Witness ==
    /\ log.different = 2
    /\ \A l \in Labels : Cardinality(DOMAIN entities[l]) = (IF l = "Cluster" THEN 1 ELSE 0)

IsExpire(o) == o.name = "expire"

\* C7: expire_previously_existing completes without error; an edge of
\* EXISTING[type] whose id is not in ENTITIES[type] has nothing to be
\* removed, so that the call leaves ENTITIES as it found it.
C7_ExpireCompletes ==
    [][IsExpire(op') => (err' = "none" /\ entities' = entities)]_vars

\* C12 as the specification has it: EXISTING is read-only once the fetch
\* has filled it, a create adds, changes and removes nothing in it.
C12_ExistingReadOnly ==
    [][IsCreate(op') => existing' = existing]_vars

\* C12: a create changes and removes no entry of EXISTING; it adds one
\* entry, the entity it made under its existing-key, when EXISTING has
\* none under that key, and nothing otherwise.
C12_CreateOnlyRegisters ==
    [][IsCreate(op') =>
        \A l \in Labels :
            /\ \A k \in DOMAIN existing[l] :
                  k \in DOMAIN existing'[l] /\ existing'[l][k] = existing[l][k]
            /\ \A k \in DOMAIN existing'[l] \ DOMAIN existing[l] :
                  /\ l = op'.label
                  /\ k = existing_key_of(l, op'.kwargs).val
                  /\ existing'[l][k] = made'
            /\ (l = op'.label /\ err' = "none") =>
                  existing_key_of(l, op'.kwargs).val \in DOMAIN existing'[l]]_vars

\* the CLUSTER edge to the cluster k2, which no earlier run persisted, is in
\* EXISTING once it is created
C12_Witness ==
    /\ IsCreate(op) /\ err = "none" /\ op.label = "CLUSTER"
    /\ op.kwargs["~to"] = PyStr(vertex_id(shard, "Cluster", "k2"))
    /\ existing_key_of(op.label, op.kwargs).val \in DOMAIN existing[op.label]
    /\ existing[op.label][existing_key_of(op.label, op.kwargs).val] = made

\* ------------------------------------------------------------------------
\* The state: a GetGraph builder over a graph store
\* ------------------------------------------------------------------------
\* ---- bounds of the model ----
MaxAdds == 2

\* the models (amundsen_common) that the callers hand over
Column_(name, sort_order, description, stats) ==
    [name |-> name, col_type |-> "int", sort_order |-> sort_order,
     description |-> description, stats |-> stats]
Stat_(stat_type, stat_val) ==
    [stat_type |-> stat_type, stat_val |-> stat_val, start_epoch |-> None, end_epoch |-> None]
Table_(name, columns, table_writer) ==
    [database |-> "db", cluster |-> "cl", schema |-> "sc", name |-> name, is_view |-> FALSE,
     description |-> PyStr("cool"),
     programmatic_descriptions |-> << [source |-> "other", text |-> "super"] >>,
     table_writer |-> table_writer,
     tags |-> << [tag_name |-> "Kewl", tag_type |-> "default"] >>,
     columns |-> columns]
Application_(id) == [id |-> PyStr(id), name |-> None, description |-> None,
                     application_url |-> None]
User_(user_id) == [user_id |-> PyStr(user_id), email |-> PyStr(user_id \o "@example.com"),
                   other_key_values |-> None]

Column1 == Column_("c1", 1, PyStr("won"), << Stat_("mean", PyInt(3)) >>)
Column2 == Column_("c2", 2, None, <<>>)
ColumnsChoices == {<<Column1, Column2>>, <<Column1>>}
WriterChoices == {PyStr("foo"), PyStr("app-foo")}
Tables == {Table_("t", columns, writer) : columns \in ColumnsChoices, writer \in WriterChoices}
TableDataChoices == {<<table>> : table \in Tables}
AppDataChoices == {<<Application_("foo")>>, <<Application_("app-foo")>>}
UserDataChoices == {<<User_("foo")>>}
\* the orders in which a process may iterate over the application names
Orders == {<<"foo", "app-foo">>, <<"app-foo", "foo">>}
CreatedAt == DateTime(2, 60, 5)

\* what an earlier run of this program left in the store: nothing, or
\* the table t with both columns, written by the application foo
earlier_run(shard_, first_data) ==
    table_entities(shard_, first_data, << Table_("t", <<Column1, Column2>>, PyStr("foo")) >>,
                   PreviousCreated, <<"foo", "app-foo">>)
Stores(shard_) ==
    {{},
     stored_entities(earlier_run(shard_,
         app_entities(shard_, new_state, <<Application_("foo")>>)).entities)}

InitGraph ==
    /\ shard \in Shards
    /\ store \in Stores(shard)
    /\ created_at = CreatedAt
    /\ entities = new_entities
    /\ existing = new_existing
    /\ log = new_log
    /\ callables = <<>>
    /\ passes = <<>>
    /\ completed = FALSE
    /\ op = NoOp
    /\ err = "none"
    /\ ret = None
    /\ made = None
    /\ repeated = FALSE
    /\ no_runs
    /\ no_threads
    /\ no_loader
    /\ no_streams

\* self.entities or self.existing of a builder that complete() is done with
AttributeError(o) ==
    /\ Called(o, [current_state EXCEPT !.err = "AttributeError", !.val = None, !.made = None])
    /\ UNCHANGED <<graph_vars, runs_vars>>

\* an add-* call whose work left r: the pass is registered when the work
\* did not raise, and the builder itself is returned
Added(o, r, pass) ==
    /\ Called(o, r)
    /\ callables' = IF r.err = "none" THEN Append(callables, pass) ELSE callables
    /\ UNCHANGED <<store, created_at, passes, completed, runs_vars>>

\* GetGraph.add_table_entities(table_data)
AddTableEntities ==
    \E table_data \in TableDataChoices, order \in Orders :
        LET o == [name |-> "add_table_entities", table_data |-> table_data]
        IN /\ Len(callables) < MaxAdds
           /\ IF completed THEN AttributeError(o)
              ELSE Added(o, add_table_entities(shard, store, current_state, table_data,
                                               created_at, order), "table")

\* GetGraph.add_user_entities(user_data)
AddUserEntities ==
    \E user_data \in UserDataChoices :
        LET o == [name |-> "add_user_entities", user_data |-> user_data]
        IN /\ Len(callables) < MaxAdds
           /\ IF completed THEN AttributeError(o)
              ELSE Added(o, user_entities(shard, current_state, user_data), "user")

\* GetGraph.add_app_entities(app_data)
AddAppEntities ==
    \E app_data \in AppDataChoices :
        LET o == [name |-> "add_app_entities", app_data |-> app_data]
        IN /\ Len(callables) < MaxAdds
           /\ IF completed THEN AttributeError(o)
              ELSE Added(o, app_entities(shard, current_state, app_data), "app")

\* a mutation of complete: self.entities and self.existing are not deleted
Complete_not_deleting ==
    \E done \in {run_callables(current_state, callables, <<>>)} :
        /\ Called([name |-> "complete"],
                  IF done.st.err # "none" THEN [done.st EXCEPT !.val = None]
                  ELSE [done.st EXCEPT !.val = done.st.entities, !.made = None])
        /\ passes' = done.ran
        /\ UNCHANGED <<store, created_at, callables, completed, runs_vars>>

\* GetGraph.complete(): the registered passes in order, then entities is
\* taken, self.entities and self.existing are deleted and entities returned.
\* A pass that raises ends the call.  On a builder that is completed the
\* user and app passes still run, the table pass and the last lines do not
\* find self.entities.
Complete ==
    \E done \in {run_callables(current_state, callables, <<>>)} :
        LET o == [name |-> "complete"]
            before_table == \A i \in 1..Len(callables) : callables[i] # "table"
            first_table == CHOOSE i \in 1..Len(callables) :
                               callables[i] = "table" /\ \A j \in 1..(i - 1) : callables[j] # "table"
        IN IF completed
           THEN /\ Called(o, [current_state EXCEPT !.err = "AttributeError",
                                                   !.val = None, !.made = None])
                /\ passes' = IF before_table THEN callables ELSE SubSeq(callables, 1, first_table)
                /\ UNCHANGED <<store, created_at, callables, completed, runs_vars>>
           ELSE /\ Called(o, IF done.st.err # "none" THEN [done.st EXCEPT !.val = None]
                             ELSE [done.st EXCEPT !.val = done.st.entities, !.made = None])
                /\ passes' = done.ran
                /\ completed' = (done.st.err = "none")
                /\ UNCHANGED <<store, created_at, callables, runs_vars>>

ExpireInputsForOther ==
    {[vertex_type |-> "Column", keys |-> {"db://cl.sc/t/c1"}],
     [vertex_type |-> "Column", keys |-> {"db://cl.sc/t/c1", "db://cl.sc/t/c2"}],
     [vertex_type |-> "Application", keys |-> {}]}

\* GetGraph.expire_connections_for_other(vertex_type, keys, g): a class
\* method, it shares the store and the log with a builder and nothing else
ExpireConnectionsForOther ==
    \E input \in ExpireInputsForOther :
        \E r \in {expire_connections_for_other(shard, store, input.vertex_type, input.keys)} :
            LET o == [name |-> "expire_connections_for_other",
                      vertex_type |-> input.vertex_type, keys |-> input.keys]
            IN /\ op' = o
               /\ repeated' = (o = op)
               /\ err' = r.err
               /\ ret' = r.val
               /\ made' = None
               /\ log' = [k \in DOMAIN log |-> log[k] + r.log[k]]
               /\ UNCHANGED <<shard, entities, existing, graph_vars, runs_vars, module_vars, loader_vars, stream_vars>>

NextGraph ==
    \/ AddTableEntities
    \/ AddUserEntities
    \/ AddAppEntities
    \/ Complete
    \/ ExpireConnectionsForOther

SpecGraph == InitGraph /\ [][NextGraph]_vars

\* ------------------------------------------------------------------------
\* Properties of the builder
\* ------------------------------------------------------------------------
\* the edges of the store at the vertexes of the label whose key is not
\* among keys
incident_edges_for_other(store_, label, keys) ==
    bothE(store_, {v \in hasLabel(store_V(store_), label) : v["key"][2] \notin keys})

\* C8: expire_connections_for_other(vertex_type, keys) returns the edges
\* to be dropped: exactly the edges of the store at the vertexes of that
\* label whose key is not in keys.
C8_ReturnsEdgesToDrop ==
    [][op'.name = "expire_connections_for_other" =>
        /\ err' = "none"
        /\ \A l \in Labels :
              DOMAIN ret'[l] =
                  {e["~id"] : e \in hasLabel(incident_edges_for_other(
                                                 store, op'.vertex_type, op'.keys), l)}]_vars

\* C9: no expiration pass runs before complete(); complete() runs the pass
\* of every add_* call before it once, in the order of the calls, and
\* returns the accumulated ENTITIES.
C9_CompleteRunsEveryPass ==
    [][/\ op'.name # "complete" => passes' = passes
       /\ (op'.name = "complete" /\ ~completed) =>
             /\ passes' = callables
             /\ err' = "none"
             /\ ret' = entities']_vars

table_id_of(table) == PyStr(vertex_id(shard, "Table", table_uri_of(table)))
generates_edges(entities_, table) ==
    {e \in dict_values(entities_["GENERATES"]) : e["~to"] = table_id_of(table)}
owner_edges(entities_, table) ==
    {e \in dict_values(entities_["OWNER"]) : e["~from"] = table_id_of(table)}
user_in_existing(existing_, user_id) ==
    get_existing_key(TypeOfLabel(shard, "User"), [n \in {"key"} |-> PyStr(user_id)]).val
        \in DOMAIN existing_["User"]

\* C10: for a table with the writer key w that has no edge to a writer yet,
\* table_entities creates exactly one GENERATES edge, from one of the
\* Applications that EXISTING has under a possible name of w, and no OWNER
\* edge, when there is such an Application; otherwise exactly one OWNER edge,
\* to the User w, and no GENERATES edge, when EXISTING has that User;
\* otherwise neither edge, and the call logs that and returns normally.
C10_WriterEdge ==
    [][(op'.name = "add_table_entities" /\ ~completed) =>
        \A i \in 1..Len(op'.table_data) :
            LET table == op'.table_data[i]
                w == table.table_writer[2]
                apps == application_names_in_existing(shard, existing', w)
                generates == generates_edges(entities', table)
                owners == owner_edges(entities', table)
            IN (generates_edges(entities, table) = {} /\ owner_edges(entities, table) = {}) =>
                  /\ err' = "none"
                  /\ IF apps # {}
                     THEN /\ Cardinality(generates) = 1
                          /\ owners = {}
                          /\ \E e \in generates : \E name \in apps :
                                e["~from"] = PyStr(vertex_id(shard, "Application", name))
                     ELSE IF user_in_existing(existing', w)
                     THEN /\ generates = {}
                          /\ Cardinality(owners) = 1
                          /\ \E e \in owners : e["~to"] = PyStr(vertex_id(shard, "User", w))
                          /\ log'.owner_not_app = log.owner_not_app + 1
                     ELSE /\ generates = {}
                          /\ owners = {}
                          /\ log'.no_owner = log.no_owner + 1]_vars

\* the writer foo is known as the Application app-foo only: the table has
\* its GENERATES edge from app-foo and no OWNER edge
C10_Witness ==
    /\ op.name = "add_table_entities" /\ err = "none"
    /\ op.table_data[1].table_writer = PyStr("foo")
    /\ application_names_in_existing(shard, existing, "foo") = {"app-foo"}
    /\ \E e \in generates_edges(entities, op.table_data[1]) :
          e["~from"] = PyStr(vertex_id(shard, "Application", "app-foo"))
    /\ owner_edges(entities, op.table_data[1]) = {}

\* ------------------------------------------------------------------------
\* The state: two runs of the converter over the same models, the second
\* with what the first produced as EXISTING
\* ------------------------------------------------------------------------
AppDataOfRuns ==
    {<<Application_("foo")>>, <<Application_("app-foo")>>,
     <<Application_("foo"), Application_("app-foo")>>}
LaterCreatedAt == DateTime(3, 70, 9)

InitRuns ==
    /\ shard \in Shards
    /\ store = {}
    /\ created_at = CreatedAt
    /\ callables = <<>>
    /\ passes = <<>>
    /\ completed = FALSE
    /\ entities = new_entities
    /\ existing = new_existing
    /\ log = new_log
    /\ op = NoOp
    /\ err = "none"
    /\ ret = None
    /\ made = None
    /\ repeated = FALSE
    /\ run = 1
    /\ pc = "app_entities"
    /\ data \in [app_data : AppDataOfRuns, table_data : TableDataChoices]
    /\ first = None
    /\ no_threads
    /\ no_loader
    /\ no_streams

\* a call of the run whose result is r: the run goes on unless it raised
Step(o, r, next) ==
    /\ Called(o, r)
    /\ pc' = IF r.err = "none" THEN next ELSE "raised"
    /\ UNCHANGED <<graph_vars, run, data, first>>

\* _GetGraph.app_entities(app_data=..., entities, existing, created_at)
RunAppEntities ==
    /\ pc = "app_entities"
    /\ Step([name |-> "app_entities"],
            app_entities(shard, current_state, data.app_data), "table_entities")

\* _GetGraph.table_entities(table_data=..., entities, existing, created_at)
RunTableEntities ==
    /\ pc = "table_entities"
    /\ \E order \in Orders :
          Step([name |-> "table_entities"],
               table_entities(shard, current_state, data.table_data, created_at, order),
               "expire_previously_existing")

\* _GetGraph.expire_previously_existing for the table entities
RunExpire ==
    /\ pc = "expire_previously_existing"
    /\ Step([name |-> "expire"],
            expire_previously_existing(current_state, {"COLUMN", "GENERATES", "OWNER"}),
            "done")

\* the second run: new ENTITIES, a later created_at, and EXISTING holding
\* every entity of the first run under its existing-key
SecondRun ==
    /\ run = 1 /\ pc = "done"
    /\ run' = 2
    /\ pc' = "app_entities"
    /\ first' = entities
    /\ entities' = new_entities
    /\ created_at' = LaterCreatedAt
    /\ op' = NoOp
    /\ ret' = None
    /\ made' = None
    /\ repeated' = FALSE
    /\ UNCHANGED <<shard, existing, log, err, store, callables, passes, completed, data, module_vars, loader_vars, stream_vars>>

NextRuns == RunAppEntities \/ RunTableEntities \/ RunExpire \/ SecondRun

SpecRuns == InitRuns /\ [][NextRuns]_vars

\* the entities of b are those of a, but for latest_timestamp of the
\* Updatedtimestamp vertexes, which differs
same_but_timestamps(a, b) ==
    /\ \A l \in Labels \ {"Updatedtimestamp"} : b[l] = a[l]
    /\ DOMAIN b["Updatedtimestamp"] = DOMAIN a["Updatedtimestamp"]
    /\ \A id \in DOMAIN a["Updatedtimestamp"] :
          /\ dict_del(b["Updatedtimestamp"][id], {"latest_timestamp"})
                 = dict_del(a["Updatedtimestamp"][id], {"latest_timestamp"})
          /\ b["Updatedtimestamp"][id]["latest_timestamp"]
                 # a["Updatedtimestamp"][id]["latest_timestamp"]

\* C5: the second run over the same data, with everything the first run
\* produced as EXISTING and a later created_at, does not raise and makes the
\* entities of the first run again, ids and content, but for
\* latest_timestamp of the Updatedtimestamp vertexes.
C5_MergeStable ==
    run = 2 =>
        /\ pc # "raised"
        /\ pc \in {"expire_previously_existing", "done"} => same_but_timestamps(first, entities)


\* ------------------------------------------------------------------------
\* The state: calls of _get_existing_key and of the functions of
\* gremlin_model.py, one at a time, under the shard of the process
\* ------------------------------------------------------------------------
\* the properties that an existing-key leaves out, and values for them
ElidedNames(type) ==
    {"~id", "~label"} \cup (IF type.kind = "VertexType" THEN {"shard"} ELSE {"created"})
ElidedValues == {PyStr("x"), DateTime(2, 60, 5)}
\* entity with the names of elided absent or given any of the values
Variants(entity, elided, values) ==
    {dict_update(dict_del(entity, elided), assigned) :
        assigned \in UNION {[names -> values] : names \in SUBSET elided}}

\* raw properties as the callers of _get_existing_key pass them: vertexes by
\* key, edges by their ends, a READ edge by its date too; the key or an end
\* may be missing
KeyEntities(shard_, label) ==
    CASE label = "Cluster" ->
            {[name |-> PyStr("n1"), key |-> PyStr(k)] : k \in ClusterKeys}
                \cup {[name |-> PyStr("n1")]}
      [] label = "CLUSTER" ->
            {("~from" :> PyStr(vertex_id(shard_, "Database", "d")))
                 @@ ("~to" :> PyStr(vertex_id(shard_, "Cluster", k))) : k \in ClusterKeys}
                \cup {("~from" :> PyStr(vertex_id(shard_, "Database", "d")))}
      [] label = "READ" ->
            {("~from" :> PyStr(vertex_id(shard_, "User", "u")))
                 @@ ("~to" :> PyStr(vertex_id(shard_, "Table", "t")))
                 @@ ("date" :> DateTime(d, 0, 0)) @@ ("read_count" :> PyInt(1)) : d \in {1, 2}}
KeyInputsOf(shard_, label) ==
    {[label |-> label, entity |-> entity] :
        entity \in UNION {Variants(e, ElidedNames(TypeOfLabel(shard_, label)), ElidedValues) :
                             e \in KeyEntities(shard_, label)}}
KeyInputs(shard_) ==
    UNION {KeyInputsOf(shard_, label) : label \in {"Cluster", "CLUSTER", "READ"}}

InitTypes ==
    /\ shard \in Shards
    /\ entities = new_entities
    /\ existing = new_existing
    /\ log = new_log
    /\ op = NoOp
    /\ err = "none"
    /\ ret = None
    /\ made = None
    /\ repeated = FALSE
    /\ no_graph
    /\ no_runs
    /\ no_threads
    /\ no_loader
    /\ no_streams

\* a call of a function that has no state of its own: r is what it gave
Returned(o, r) ==
    /\ op' = o
    /\ err' = r.err
    /\ ret' = r.val
    /\ UNCHANGED <<shard, entities, existing, log, made, repeated, graph_vars, runs_vars,
                   module_vars, loader_vars, stream_vars>>

\* _get_existing_key(_type, **_entity)
GetExistingKey ==
    \E input \in KeyInputs(shard) :
        Returned([name |-> "get_existing_key", label |-> input.label, entity |-> input.entity],
                 get_existing_key(TypeOfLabel(shard, input.label), input.entity))

\* the arguments of construct_type: properties and an id format, with a
\* parameter that is a property, that is none, or that is the shard
ConstructProperties == {{}, {Req("name", "String")}, {Req("foo", "String")}}
VertexIdFormats ==
    {VertexTypeIdFormats_DEFAULT, <<Field("foo"), Lit(":bar")>>,
     <<Field("shard"), Lit(":"), Field("key")>>, <<Field("name"), Lit("/"), Field("key")>>}
EdgeIdFormats ==
    {EdgeTypeIdFormats_DEFAULT, EdgeTypeIdFormats_EXPIRABLE, <<Field("foo"), Lit(":bar")>>,
     <<Field("~label"), Lit(":"), Field("expired")>>}

\* VertexType.construct_type(label=, properties=, id_format=)
VertexTypeConstructType ==
    \E properties \in ConstructProperties, id_format \in VertexIdFormats :
        Returned([name |-> "construct_type", kind |-> "VertexType", expirable |-> FALSE,
                  properties |-> properties, id_format |-> id_format],
                 VertexType_construct_type(shard, "Thing", properties, id_format))

\* EdgeType.construct_type(expirable=, label=, properties=, id_format=)
EdgeTypeConstructType ==
    \E expirable \in BOOLEAN, properties \in ConstructProperties, id_format \in EdgeIdFormats :
        Returned([name |-> "construct_type", kind |-> "EdgeType", expirable |-> expirable,
                  properties |-> properties, id_format |-> id_format],
                 EdgeType_construct_type("THING", expirable, properties, id_format))

\* the raw properties that create is called with: a complete entity of the
\* label, and what callers add to it or leave out of it
CreateBase(shard_, label) ==
    CASE label = "Column" -> [key |-> PyStr("k"), name |-> PyStr("n")]
      [] label = "Tag" -> [key |-> PyStr("Kewl"), tag_name |-> PyStr("Kewl")]
      [] label = "CLUSTER" ->
            ("created" :> DateTime(2, 60, 5))
                @@ ("~from" :> PyStr(vertex_id(shard_, "Database", "d")))
                @@ ("~to" :> PyStr(vertex_id(shard_, "Cluster", "k1")))
CreateExtras(label) ==
    CASE label = "Column" ->
            {EmptyDict, [col_type |-> None], [sort_order |-> PyInt(1)],
             [sort_order |-> PyStr("1")], [sort_order |-> PyBool(TRUE)],
             [foo |-> PyStr("x")], [foo |-> None], [foo |-> PyInt(1)], [name |-> None],
             [key |-> PyStr("column_key")], [shard |-> PyStr("other")],
             ("~id" :> PyStr("given")) @@ ("sort_order" :> PyStr("1"))}
      [] label = "Tag" ->
            {EmptyDict, [tag_type |-> None], [tag_type |-> PyStr("x")], [tag_name |-> None]}
      [] label = "CLUSTER" ->
            {EmptyDict, [expired |-> None], [created |-> PyStr("2020")], [created |-> PyInt(5)],
             [expired |-> DateTimeTz(3, 0, 0)], [expired |-> DateTime(3, 0, 0)],
             ("~id" :> PyStr("given")) @@ ("expired" :> PyInt(5))}
CreateLeftOut == {{}, {"key"}, {"name"}, {"~to"}}
TypeCreateInputs(shard_, label) ==
    {[label |-> label, kwargs |-> dict_del(dict_update(CreateBase(shard_, label), extra), out)] :
        extra \in CreateExtras(label), out \in CreateLeftOut}

\* VertexType.create(**properties) / EdgeType.create(**properties)
TypeCreate ==
    \E label \in {"Column", "Tag", "CLUSTER"} :
        \E input \in TypeCreateInputs(shard, label) :
            Returned([name |-> "Type.create", label |-> input.label, kwargs |-> input.kwargs],
                     Type_create(TypeOfLabel(shard, input.label), input.kwargs))

NextTypes ==
    \/ GetExistingKey
    \/ VertexTypeConstructType
    \/ EdgeTypeConstructType
    \/ TypeCreate

SpecTypes == InitTypes /\ [][NextTypes]_vars

\* C11: the existing-key of raw properties is that of every other raw
\* properties of the type that differ from them only in ~id, ~label, shard
\* (a vertex) or created (an edge), and it is the set of the pairs (name,
\* formatted value) of the other parameters of the id format.
C11_ExistingKeyIndependent ==
    op.name = "get_existing_key" =>
        LET type == TypeOfLabel(shard, op.label)
            others == discover_parameters(type.id_format) \ ElidedNames(type)
        IN /\ \A other \in Variants(op.entity, ElidedNames(type),
                                    ElidedValues \cup {PyStr("y"), PyInt(7)}) :
                  get_existing_key(type, other) = [err |-> err, val |-> ret]
           /\ err = "none" =>
                  ret = {<<n, Property_format(properties_as_map(type)[n], op.entity[n]).val>> :
                            n \in others}

\* the key of a CLUSTER edge that comes with its id and created: its ends
C11_Witness ==
    /\ op.name = "get_existing_key" /\ op.label = "CLUSTER" /\ err = "none"
    /\ {"~id", "created"} \subseteq DOMAIN op.entity
    /\ ret = {<<"~from", op.entity["~from"][2]>>, <<"~to", op.entity["~to"][2]>>}


IsTypeCreate(o) == o.name = "Type.create"
IsConstructType(o) == o.name = "construct_type"

\* C16: a Column created from its key and no shard of its own has, with no
\* shard active, the id Column:<key> and no shard property, and with the
\* shard s active the id s:Column:<key> and shard = s; construct_type puts
\* {shard}: before the id format when a shard is active and the format does
\* not have {shard}.
C16_ShardInjection ==
    /\ (/\ IsTypeCreate(op) /\ op.label = "Column" /\ err = "none"
        /\ DOMAIN op.kwargs \cap {"~id", "shard"} = {}) =>
            IF shard = None
            THEN /\ ret["~id"] = PyStr("Column:" \o op.kwargs["key"][2])
                 /\ "shard" \notin DOMAIN ret
            ELSE /\ ret["~id"] = PyStr(shard[2] \o ":Column:" \o op.kwargs["key"][2])
                 /\ ret["shard"] = shard
    /\ (IsConstructType(op) /\ op.kind = "VertexType" /\ err = "none") =>
            ret.id_format = IF shard # None /\ ~HasField(op.id_format, "shard")
                            THEN <<Field("shard"), Lit(":")>> \o op.id_format
                            ELSE op.id_format

\* the Column of key k under the shard s1
C16_Witness ==
    /\ IsTypeCreate(op) /\ op.label = "Column" /\ err = "none" /\ shard = PyStr("s1")
    /\ op.kwargs = [key |-> PyStr("k"), name |-> PyStr("n")]
    /\ ret["~id"] = PyStr("s1:Column:k")
    /\ ret["shard"] = PyStr("s1")

\* the id format that construct_type checks, and the property names it
\* checks it against
checked_id_format(o) ==
    IF o.kind = "VertexType" /\ shard # None /\ ~HasField(o.id_format, "shard")
    THEN <<Field("shard"), Lit(":")>> \o o.id_format
    ELSE o.id_format
checked_names(o) ==
    names_of(o.properties) \cup {"~label", "~id"}
        \cup (IF o.kind = "VertexType"
              THEN {"key"} \cup (IF shard # None THEN {"shard"} ELSE {})
              ELSE {"~from", "~to", "created"} \cup (IF o.expirable THEN {"expired"} ELSE {}))
placeholders(format_string) ==
    {format_string[i][2] : i \in {j \in 1..Len(format_string) : format_string[j][1] = "field"}}

\* C17: construct_type fails with an AssertionError, and gives no type, when
\* the id format has a parameter that is no property of the type, and gives
\* the type otherwise; the parameters discovered are the placeholder names
\* of the format.
C17_IdFormatChecked ==
    IsConstructType(op) =>
        /\ discover_parameters(checked_id_format(op)) = placeholders(checked_id_format(op))
        /\ err = "none" <=> placeholders(checked_id_format(op)) \subseteq checked_names(op)
        /\ err # "none" => (err = "AssertionError" /\ ret = None)
        /\ err = "none" => placeholders(ret.id_format) \subseteq names_of(ret.properties)

\* the construction of the tests: id_format='{foo}:bar'
C17_Witness ==
    /\ IsConstructType(op) /\ op.id_format = <<Field("foo"), Lit(":bar")>>
    /\ op.properties = {}
    /\ err = "AssertionError" /\ ret = None

\* the names that create is given a value for
supplied(kwargs) == {n \in DOMAIN kwargs : kwargs[n] # None}
\* the required properties that create does not fill by itself
required_of_caller(type) ==
    {p.name : p \in {q \in type.properties : q.required /\ q.default = None}}
        \ ({"~id", "~label"} \cup DOMAIN type.defaults)

\* C18: an entity that Type.create returns has declared property names only,
\* every required property and no None value; create fails when it is given
\* a value for an undeclared property or no value for a required one.
C18_EntityWellFormed ==
    IsTypeCreate(op) =>
        LET type == TypeOfLabel(shard, op.label)
        IN /\ err = "none" =>
                 /\ DOMAIN ret \subseteq names_of(type.properties)
                 /\ {p.name : p \in {q \in type.properties : q.required}} \subseteq DOMAIN ret
                 /\ \A n \in DOMAIN ret : ret[n] # None
           /\ ~(supplied(op.kwargs) \subseteq names_of(type.properties)) => err # "none"
           /\ ~(required_of_caller(type) \subseteq supplied(op.kwargs)) => err # "none"

\* the create of the tests: col_type=None is dropped
C18_Witness ==
    /\ IsTypeCreate(op) /\ op.label = "Column" /\ err = "none"
    /\ "col_type" \in DOMAIN op.kwargs
    /\ DOMAIN ret = {"~label", "~id", "key", "name"}
                        \cup (IF shard = None THEN {} ELSE {"shard"})

\* C19: Type.create puts the default of a property into the entity when the
\* property has a default and the input has no value for it.
C19_DefaultsFilled ==
    (IsTypeCreate(op) /\ err = "none") =>
        \A p \in TypeOfLabel(shard, op.label).properties :
            (p.default # None /\ p.name \notin supplied(op.kwargs)) => ret[p.name] = p.default

\* C20: Type.create fails when a value it is given is not allowed by the
\* type of its property, and no entity it returns holds such a value.
C20_ValuesValidated ==
    IsTypeCreate(op) =>
        LET properties == properties_as_map(TypeOfLabel(shard, op.label))
            wrong == {n \in supplied(op.kwargs) \cap DOMAIN properties :
                         ~is_allowed(properties[n].type, op.kwargs[n])}
        IN /\ wrong # {} => err # "none"
           /\ err = "none" => \A n \in DOMAIN ret \cap DOMAIN op.kwargs :
                                  is_allowed(properties[n].type, ret[n])

\* ------------------------------------------------------------------------
\* test_and_development_shard.py: threads that call shard_set_explicitly
\* and get_shard, a statement at a time
\* ------------------------------------------------------------------------
\* ---- bounds of the model ----
NumThreads == 2
MaxCalls == 2

Threads == 1..NumThreads
\* what _shard_default() may give, and what a caller may set
ShardDefaults == {None, PyStr("user")}
ShardArguments == {None, PyStr("s1"), PyStr("s2")}

idle_thread == [pc |-> "idle", call |-> "none", arg |-> None, err |-> "none", val |-> None,
                after_get |-> FALSE, calls |-> 0]

\* Lock.acquire succeeds when no thread holds the lock
lock_free_always(lock) == TRUE
lock_free(lock) == lock = {}

\* assert not _shard_used
assert_not_used_always(used) == TRUE
assert_not_used(used) == ~used

InitShard ==
    /\ _shard \in ShardDefaults
    /\ _shard_used = FALSE
    /\ _shard_lock = {}
    /\ threads = [t \in Threads |-> idle_thread]
    /\ gets = {}
    /\ sets = 0
    /\ shard = None
    /\ entities = new_entities
    /\ existing = new_existing
    /\ log = new_log
    /\ op = NoOp
    /\ err = "none"
    /\ ret = None
    /\ made = None
    /\ repeated = FALSE
    /\ no_graph
    /\ no_runs
    /\ no_loader
    /\ no_streams

\* thread t goes on to pc_, nothing else of it changes
goto(t, pc_) == threads' = [threads EXCEPT ![t].pc = pc_]
at(t, pc_) == threads[t].pc = pc_
rest_unchanged == UNCHANGED <<converter_vars, graph_vars, runs_vars, loader_vars, stream_vars>>

\* a thread calls shard_set_explicitly(shard)
CallShardSetExplicitly(t) ==
    /\ at(t, "idle") /\ threads[t].calls < MaxCalls
    /\ \E argument \in ShardArguments :
          threads' = [threads EXCEPT ![t] =
                         [pc |-> "set_lock", call |-> "shard_set_explicitly", arg |-> argument,
                          err |-> "none", val |-> None, after_get |-> gets # {},
                          calls |-> @.calls + 1]]
    /\ UNCHANGED <<_shard, _shard_used, _shard_lock, gets, sets>>
    /\ rest_unchanged

\* with _shard_lock:
SetLock(t) ==
    /\ at(t, "set_lock") /\ lock_free(_shard_lock)
    /\ _shard_lock' = {t}
    /\ goto(t, "set_assert")
    /\ UNCHANGED <<_shard, _shard_used, gets, sets>>
    /\ rest_unchanged

\* assert not _shard_used: the AssertionError leaves the with block
SetAssert(t) ==
    /\ at(t, "set_assert")
    /\ IF assert_not_used(_shard_used)
       THEN goto(t, "set_assign") /\ UNCHANGED _shard_lock
       ELSE /\ threads' = [threads EXCEPT ![t].pc = "idle", ![t].err = "AssertionError"]
            /\ _shard_lock' = {}
    /\ UNCHANGED <<_shard, _shard_used, gets, sets>>
    /\ rest_unchanged

\* _shard = shard
SetAssign(t) ==
    /\ at(t, "set_assign")
    /\ _shard' = threads[t].arg
    /\ goto(t, "set_unlock")
    /\ UNCHANGED <<_shard_used, _shard_lock, gets, sets>>
    /\ rest_unchanged

\* the end of the with block, and of the call
SetUnlock(t) ==
    /\ at(t, "set_unlock")
    /\ _shard_lock' = {}
    /\ goto(t, "idle")
    /\ sets' = sets + 1
    /\ UNCHANGED <<_shard, _shard_used, gets>>
    /\ rest_unchanged

\* a thread calls get_shard()
CallGetShard(t) ==
    /\ at(t, "idle") /\ threads[t].calls < MaxCalls
    /\ threads' = [threads EXCEPT ![t] =
                      [pc |-> "get_check", call |-> "get_shard", arg |-> None,
                       err |-> "none", val |-> None, after_get |-> gets # {},
                       calls |-> @.calls + 1]]
    /\ UNCHANGED <<_shard, _shard_used, _shard_lock, gets, sets>>
    /\ rest_unchanged

\* if _shard_used: the lock free path
GetCheck(t) ==
    /\ at(t, "get_check")
    /\ goto(t, IF _shard_used THEN "get_return_used" ELSE "get_lock")
    /\ UNCHANGED <<_shard, _shard_used, _shard_lock, gets, sets>>
    /\ rest_unchanged

\* with _shard_lock:
GetLock(t) ==
    /\ at(t, "get_lock") /\ lock_free(_shard_lock)
    /\ _shard_lock' = {t}
    /\ goto(t, "get_use")
    /\ UNCHANGED <<_shard, _shard_used, gets, sets>>
    /\ rest_unchanged

\* _shard_used = True
GetUse(t) ==
    /\ at(t, "get_use")
    /\ _shard_used' = TRUE
    /\ goto(t, "get_unlock")
    /\ UNCHANGED <<_shard, _shard_lock, gets, sets>>
    /\ rest_unchanged

\* the end of the with block
GetUnlock(t) ==
    /\ at(t, "get_unlock")
    /\ _shard_lock' = {}
    /\ goto(t, "get_return")
    /\ UNCHANGED <<_shard, _shard_used, gets, sets>>
    /\ rest_unchanged

\* return _shard, on either path
GetReturn(t) ==
    /\ at(t, "get_return") \/ at(t, "get_return_used")
    /\ threads' = [threads EXCEPT ![t].pc = "idle", ![t].val = _shard]
    /\ gets' = gets \cup {_shard}
    /\ UNCHANGED <<_shard, _shard_used, _shard_lock, sets>>
    /\ rest_unchanged

NextShard ==
    \E t \in Threads :
        \/ CallShardSetExplicitly(t)
        \/ SetLock(t)
        \/ SetAssert(t)
        \/ SetAssign(t)
        \/ SetUnlock(t)
        \/ CallGetShard(t)
        \/ GetCheck(t)
        \/ GetLock(t)
        \/ GetUse(t)
        \/ GetUnlock(t)
        \/ GetReturn(t)

SpecShard == InitShard /\ [][NextShard]_vars

\* C13: in every interleaving of get_shard and shard_set_explicitly calls, no
\* assignment of shard_set_explicitly happens once a get_shard has returned,
\* and every get_shard call returns the same value.
C13_FrozenByFirstRead ==
    /\ [][_shard' # _shard => gets = {}]_vars
    /\ [](Cardinality(gets) <= 1)

\* a get_shard that found the shard unused waits for the lock while a
\* shard_set_explicitly, past its assert, has made its assignment
C13_Witness ==
    \E t \in Threads, u \in Threads :
        at(t, "set_unlock") /\ at(u, "get_lock") /\ _shard = threads[t].arg

\* C14: a shard_set_explicitly called once a get_shard has returned fails
\* with an AssertionError and leaves the shard as it is: get_shard goes on
\* returning the value it returned before.
C14_SetAfterGetFails ==
    /\ \A t \in Threads :
          (threads[t].call = "shard_set_explicitly" /\ threads[t].after_get) =>
              /\ threads[t].pc \in {"set_lock", "set_assert", "idle"}
              /\ at(t, "idle") => threads[t].err = "AssertionError"
    /\ gets # {} => gets = {_shard}

\* a shard_set_explicitly after a get_shard has failed, and the get_shard
\* after it returned what the first one had returned
C14_Witness ==
    \E t \in Threads, u \in Threads :
        /\ threads[t].call = "shard_set_explicitly" /\ threads[t].after_get
        /\ at(t, "idle") /\ threads[t].err = "AssertionError"
        /\ threads[t].arg # _shard
        /\ threads[u].call = "get_shard" /\ threads[u].after_get
        /\ at(u, "idle") /\ threads[u].val = _shard /\ gets = {_shard}

\* C15: the shard is set explicitly once at most: after a
\* shard_set_explicitly that succeeded, no other one succeeds, get_shard
\* called or not.
C15_SetOnce == sets <= 1


\* ------------------------------------------------------------------------
\* neptune_bulk_loader/api.py: partition_properties and merge_properties
\*
\* Here a type carries its properties as the tuple the source keeps, and a
\* collection of types is the sequence in which it is iterated: the first
\* overlapping property name depends on both.  A set of types or of
\* signatures is iterated in an order of its own at every call.
\* ------------------------------------------------------------------------
RECURSIVE orderings(_)
orderings(S) ==
    IF S = {} THEN {<<>>}
    ELSE UNION {{<<x>> \o o : o \in orderings(S \ {x})} : x \in S}

GraphEntityType(kind, label, properties) ==
    [kind |-> kind, label |-> label, properties |-> properties]

\* Property.signature: name, type and cardinality or default_cardinality
Property_signature(p, default_cardinality) ==
    Property(p.name, p.type,
             IF p.cardinality # "None" THEN p.cardinality ELSE default_cardinality,
             FALSE, None)

signatures_of(t, default_cardinality) ==
    {Property_signature(t.properties[i], default_cardinality) : i \in DOMAIN t.properties}

\* by_name: the signatures seen under each property name
by_name(_types, default_cardinality) ==
    [n \in UNION {names_of(Range(t.properties)) : t \in Range(_types)} |->
        {signature \in UNION {signatures_of(t, default_cardinality) : t \in Range(_types)} :
            signature.name = n}]

\* by_signature[signature]: the types that have a property of that signature
by_signature(_types, default_cardinality, signature) ==
    {t \in Range(_types) : signature \in signatures_of(t, default_cardinality)}

\* the keys of by_name in the order they were inserted
RECURSIVE property_names(_)
property_names(_types) ==
    IF _types = <<>> THEN <<>>
    ELSE [i \in DOMAIN Head(_types).properties |-> Head(_types).properties[i].name]
         \o property_names(Tail(_types))

\* the names of overlapping_properties, a mutation: no name ever overlaps
overlapping_properties_none(_types, default_cardinality) == {}

\* the names k of overlapping_properties: len(by_name[k]) != 1
overlapping_properties(_types, default_cardinality) ==
    {n \in DOMAIN by_name(_types, default_cardinality) :
        Cardinality(by_name(_types, default_cardinality)[n]) # 1}

\* overlapping_properties[0]: the overlapping name that was inserted first
first_overlapping(_types, default_cardinality) ==
    property_names(_types)[
        CHOOSE i \in DOMAIN property_names(_types) :
            /\ property_names(_types)[i] \in overlapping_properties(_types, default_cardinality)
            /\ \A j \in 1..(i - 1) :
                  property_names(_types)[j] \notin overlapping_properties(_types, default_cardinality)]

\* sorted([by_signature[signature] for signature in signatures], key=len):
\* every order of the signatures that leaves the groups sorted by size
sorted_overlapping_types(_types, default_cardinality) ==
    {[i \in DOMAIN o |-> by_signature(_types, default_cardinality, o[i])] :
        o \in {o \in orderings(by_name(_types, default_cardinality)
                                 [first_overlapping(_types, default_cardinality)]) :
                  \A i, j \in DOMAIN o :
                      i < j => Cardinality(by_signature(_types, default_cardinality, o[i]))
                               <= Cardinality(by_signature(_types, default_cardinality, o[j]))}}

other_types(_types, overlapping_types) == Range(_types) \ UNION Range(overlapping_types)

\* a mutation of with_other_types: the other types are left out
without_other_types(_types, overlapping_types) == overlapping_types

\* overlapping_types[0] = overlapping_types[0].union(other_types)
with_other_types(_types, overlapping_types) ==
    [overlapping_types EXCEPT ![1] = @ \cup other_types(_types, overlapping_types)]

isdisjoint(a, b) == a \cap b = {}

RECURSIVE sum_len(_)
sum_len(groups) ==
    IF groups = <<>> THEN 0 ELSE Cardinality(Head(groups)) + sum_len(Tail(groups))

\* the asserts of _try before it recurses
try_asserts(_types, overlapping_types) ==
    /\ \A i, j \in DOMAIN overlapping_types :
          i < j => isdisjoint(overlapping_types[i], overlapping_types[j])
    /\ sum_len(with_other_types(_types, overlapping_types)) = Len(_types)
    /\ \A i \in DOMAIN overlapping_types : with_other_types(_types, overlapping_types)[i] # {}

\* what two calls in a row leave in partitioned
try_then(a, b) ==
    IF a.err # "none" THEN a ELSE IF b.err # "none" THEN b ELSE Ok(a.val \o b.val)

\* _try(_types): every list it can append to partitioned
RECURSIVE _try(_, _), try_each(_, _)
_try(_types, default_cardinality) ==
    IF overlapping_properties(_types, default_cardinality) = {}
    THEN {Ok(<<_types>>)}
    ELSE UNION {IF try_asserts(_types, overlapping_types)
                THEN try_each(with_other_types(_types, overlapping_types), default_cardinality)
                ELSE {Raise("AssertionError")} :
                    overlapping_types \in sorted_overlapping_types(_types, default_cardinality)}

\* for e in overlapping_types: _try(e)
try_each(groups, default_cardinality) ==
    IF groups = <<>> THEN {Ok(<<>>)}
    ELSE {try_then(a, b) :
            a \in UNION {_try(e, default_cardinality) : e \in orderings(Head(groups))},
            b \in try_each(Tail(groups), default_cardinality)}

\* the two asserts on partitioned before it is returned
partitioned_asserts(types, partitioned) ==
    /\ sum_len([i \in DOMAIN partitioned |-> Range(partitioned[i])]) = Len(types)
    /\ \A i, j \in DOMAIN partitioned :
          i < j => isdisjoint(Range(partitioned[i]), Range(partitioned[j]))

default_cardinality_of(types) ==
    IF \A t \in Range(types) : t.kind = "VertexType" THEN Ok("single")
    ELSE IF \A t \in Range(types) : t.kind = "EdgeType" THEN Ok("None")
    ELSE Raise("AssertionError")

\* every result partition_properties(types) can give
partition_properties(types) ==
    IF default_cardinality_of(types).err # "none" THEN {Raise("AssertionError")}
    ELSE {IF r.err = "none" /\ ~partitioned_asserts(types, r.val)
          THEN Raise("AssertionError") ELSE r :
              r \in _try(types, default_cardinality_of(types).val)}

merge_properties(types) ==
    IF default_cardinality_of(types).err # "none" THEN Raise("AssertionError")
    ELSE IF \E n \in DOMAIN by_name(types, default_cardinality_of(types).val) :
                Cardinality(by_name(types, default_cardinality_of(types).val)[n]) # 1
    THEN Raise("AssertionError")
    ELSE Ok([n \in DOMAIN by_name(types, default_cardinality_of(types).val) |->
                CHOOSE v \in by_name(types, default_cardinality_of(types).val)[n] : TRUE])

\* ---- the calls of partition_properties and merge_properties ----
MaxTypes == 4

\* vertex types: A and E declare x alike (single is the default of a vertex),
\* B declares it as a String; likewise y
VertexTypesToPartition ==
    {GraphEntityType("VertexType", "A", <<MagicProperties_ID, Opt("x", "Int")>>),
     GraphEntityType("VertexType", "B", <<MagicProperties_ID, Opt("x", "String")>>),
     GraphEntityType("VertexType", "C", <<Opt("y", "Int"), MagicProperties_ID>>),
     GraphEntityType("VertexType", "D", <<MagicProperties_ID, Opt("y", "String")>>),
     GraphEntityType("VertexType", "E",
         <<Property("x", "Int", "single", FALSE, None), Opt("y", "Int")>>),
     GraphEntityType("VertexType", "F", <<Opt("y", "String"), Opt("x", "String")>>)}

\* edge types: G and H declare w with cardinalities that differ on an edge
EdgeTypesToPartition ==
    {GraphEntityType("EdgeType", "G", <<MagicProperties_ID, Opt("w", "Int")>>),
     GraphEntityType("EdgeType", "H",
         <<MagicProperties_ID, Property("w", "Int", "single", FALSE, None)>>),
     GraphEntityType("EdgeType", "I", <<Opt("z", "Date"), Opt("w", "Int")>>)}

TypesToPartition ==
    UNION {orderings(S) :
              S \in {S \in SUBSET (VertexTypesToPartition \cup EdgeTypesToPartition) :
                        Cardinality(S) <= MaxTypes}}

InitApi ==
    /\ shard = None
    /\ entities = new_entities
    /\ existing = new_existing
    /\ log = new_log
    /\ op \in {[name |-> name, types |-> types] :
                  name \in {"partition_properties", "merge_properties"},
                  types \in TypesToPartition}
    /\ err = "none"
    /\ ret = None
    /\ made = None
    /\ repeated = FALSE
    /\ no_graph
    /\ no_runs
    /\ no_threads
    /\ no_loader
    /\ no_streams

\* the call that op names has not returned yet
Calling(name) == op.name = name /\ err = "none" /\ ret = None

\* the call that op names ends: r is what it gave
Ends(r) ==
    /\ err' = r.err
    /\ ret' = r.val
    /\ UNCHANGED <<shard, entities, existing, log, op, made, repeated, graph_vars, runs_vars,
                   module_vars, loader_vars, stream_vars>>

PartitionProperties ==
    /\ Calling("partition_properties")
    /\ \E r \in partition_properties(op.types) : Ends(r)

MergeProperties ==
    /\ Calling("merge_properties")
    /\ Ends(merge_properties(op.types))

NextApi == PartitionProperties \/ MergeProperties

SpecApi == InitApi /\ [][NextApi]_vars

homogeneous(types) ==
    \/ \A t \in Range(types) : t.kind = "VertexType"
    \/ \A t \in Range(types) : t.kind = "EdgeType"

IsPartitioned == op.name = "partition_properties" /\ (err # "none" \/ ret # None)

\* C21: for every input of vertex types only or of edge types only,
\* partition_properties returns, the union of the partitions it returns is
\* the input, and no type is in two of them.
C21_PartitionCovers ==
    (IsPartitioned /\ homogeneous(op.types)) =>
        /\ err = "none"
        /\ UNION {Range(ret[i]) : i \in DOMAIN ret} = Range(op.types)
        /\ \A i, j \in DOMAIN ret : i < j => isdisjoint(Range(ret[i]), Range(ret[j]))
        /\ \A i \in DOMAIN ret : Cardinality(Range(ret[i])) = Len(ret[i])

\* a call with types that overlap in x and a type that does not declare x
\* has returned two partitions
C21_Witness ==
    /\ IsPartitioned
    /\ err = "none"
    /\ Len(op.types) >= 3
    /\ Len(ret) = 2
    /\ \E t \in Range(op.types) : \A i \in DOMAIN t.properties : t.properties[i].name # "x"
    /\ \E t, u \in Range(op.types) :
          \E i \in DOMAIN t.properties, j \in DOMAIN u.properties :
              /\ t.properties[i].name = "x"
              /\ u.properties[j].name = "x"
              /\ t.properties[i].type # u.properties[j].type

declares(t, n) == \E i \in DOMAIN t.properties : t.properties[i].name = n
declared_type(t, n) == (CHOOSE p \in Range(t.properties) : p.name = n).type

\* C22: in every partition partition_properties returns each property name
\* has one signature, so merge_properties of the partition returns; two
\* types that declare a name with different types are in different
\* partitions.
C22_PartitionsMerge ==
    (IsPartitioned /\ err = "none") =>
        \A i \in DOMAIN ret :
            /\ \A n \in DOMAIN by_name(ret[i], default_cardinality_of(op.types).val) :
                  Cardinality(by_name(ret[i], default_cardinality_of(op.types).val)[n]) = 1
            /\ merge_properties(ret[i]).err = "none"
            /\ \A t, u \in Range(ret[i]) :
                  \A n \in {"x", "y", "w", "z"} :
                      (declares(t, n) /\ declares(u, n))
                          => declared_type(t, n) = declared_type(u, n)

\* types that declare x with different types were partitioned, and so were
\* edge types that differ in the cardinality of w only
C22_Witness ==
    /\ IsPartitioned
    /\ err = "none"
    /\ Len(ret) >= 2
    /\ \E t, u \in Range(op.types) :
          \/ declares(t, "x") /\ declares(u, "x") /\ declared_type(t, "x") # declared_type(u, "x")
          \/ t.kind = "EdgeType" /\ t # u /\ declares(t, "w") /\ declares(u, "w")

\* merge_properties does not depend on the order of the types
conflict_free(group) == merge_properties(CHOOSE o \in orderings(group) : TRUE).err = "none"

\* C23: partition_properties returns the fewest groups: no assignment of
\* the input types to fewer groups leaves every group without a conflict.
C23_FewestGroups ==
    (IsPartitioned /\ err = "none" /\ op.types # <<>>) =>
        \A k \in 1..(Len(ret) - 1) :
            ~ \E f \in [Range(op.types) -> 1..k] :
                  \A g \in 1..k :
                      conflict_free({t \in Range(op.types) : f[t] = g})


\* ------------------------------------------------------------------------
\* neptune_bulk_loader/api.py: NeptuneBulkLoaderApi.bulk_load_entities, from
\* the upload of the csvs on.  Neptune runs the load jobs on its own; the
\* function sees them through the responses of load and load_status only.
\* ------------------------------------------------------------------------
MaxVertexCsvs == 2
MaxEdgeCsvs == 1

\* the statuses a load job goes through; Neptune ends a job in others than
\* LOAD_COMPLETED and LOAD_FAILED too
LoadStatuses ==
    {"LOAD_NOT_STARTED", "LOAD_IN_PROGRESS", "LOAD_COMPLETED", "LOAD_FAILED",
     "LOAD_CANCELLED_BY_USER"}
LoadStatusesAfter(status) ==
    CASE status = "LOAD_NOT_STARTED" -> {"LOAD_IN_PROGRESS", "LOAD_CANCELLED_BY_USER"}
      [] status = "LOAD_IN_PROGRESS" -> {"LOAD_COMPLETED", "LOAD_FAILED", "LOAD_CANCELLED_BY_USER"}
      [] OTHER -> {}

\* the csvs of partition_properties: never less than one of each kind
csv_keys(vertex_csvs, edge_csvs) ==
    [i \in 1..vertex_csvs |-> "vertex" \o ToString(i - 1) \o ".csv"]
    \o [i \in 1..edge_csvs |-> "edge" \o ToString(i - 1) \o ".csv"]

\* the loadId Neptune gives to the n-th load
load_id(n) == "load" \o ToString(n)
load_ids(n) == [i \in 1..n |-> load_id(i)]

InitLoad ==
    /\ shard = None
    /\ entities = new_entities
    /\ existing = new_existing
    /\ log = new_log
    /\ \E vertex_csvs \in 1..MaxVertexCsvs, edge_csvs \in 1..MaxEdgeCsvs, b \in BOOLEAN :
          /\ op = [name |-> "bulk_load_entities", csvs |-> csv_keys(vertex_csvs, edge_csvs),
                   raise_if_failed |-> b]
          /\ csvs = csv_keys(vertex_csvs, edge_csvs)
    /\ err = "none"
    /\ ret = None
    /\ made = None
    /\ repeated = FALSE
    /\ no_graph
    /\ no_runs
    /\ no_threads
    /\ todo = <<>>
    /\ status_by_load_id = EmptyDict
    /\ loads = EmptyDict
    /\ load_pc = "submit"
    /\ warnings = <<>>
    /\ polls = {}
    /\ no_streams

load_unchanged ==
    UNCHANGED <<shard, entities, existing, log, op, made, repeated, graph_vars, runs_vars,
                module_vars, stream_vars>>

\* for s3_object_key, v in csvs: upload, load, and the loadId of the response
\* goes to todo; a response without a loadId fails the assert
SubmitLoad ==
    /\ load_pc = "submit"
    /\ csvs # <<>>
    /\ \/ /\ loads' = dict_update(loads, [n \in {load_id(Len(todo) + 1)} |-> "LOAD_NOT_STARTED"])
          /\ todo' = Append(todo, load_id(Len(todo) + 1))
          /\ csvs' = Tail(csvs)
          /\ load_pc' = IF Tail(csvs) = <<>> THEN "poll" ELSE "submit"
          /\ UNCHANGED <<err, ret>>
       \/ /\ err' = "AssertionError"
          /\ load_pc' = "done"
          /\ UNCHANGED <<loads, todo, csvs, ret>>
    /\ UNCHANGED <<status_by_load_id, warnings, polls>>
    /\ load_unchanged

\* a load job goes on, in Neptune
NeptuneLoads ==
    /\ \E id \in DOMAIN loads :
          \E status \in LoadStatusesAfter(loads[id]) :
              loads' = [loads EXCEPT ![id] = status]
    /\ UNCHANGED <<csvs, todo, status_by_load_id, load_pc, warnings, polls, err, ret>>
    /\ load_unchanged

\* status_by_load_id.update([(id, self.load_status(load_id=id, ...)) for id in todo])
polled(status_by_load_id_, todo_, loads_) ==
    dict_update(status_by_load_id_, [id \in Range(todo_) |-> loads_[id]])

\* a mutation of still_todo: a failed load stays in todo
still_todo_unless_completed(status_by_load_id_) ==
    LET outstanding(id) == /\ id \in DOMAIN status_by_load_id_
                           /\ status_by_load_id_[id] # "LOAD_COMPLETED"
    IN SelectSeq(load_ids(Cardinality(DOMAIN status_by_load_id_)), outstanding)

\* todo = [load_id for load_id, overall_status in status_by_load_id.items()
\*         if status not in ('LOAD_COMPLETED', 'LOAD_FAILED')]
still_todo(status_by_load_id_) ==
    LET outstanding(id) == /\ id \in DOMAIN status_by_load_id_
                           /\ status_by_load_id_[id] \notin {"LOAD_COMPLETED", "LOAD_FAILED"}
    IN SelectSeq(load_ids(Cardinality(DOMAIN status_by_load_id_)), outstanding)

\* one round of while todo: the statuses of the loads in todo, the new todo,
\* and the sleep
PollLoads ==
    /\ load_pc = "poll"
    /\ todo # <<>>
    /\ status_by_load_id' = polled(status_by_load_id, todo, loads)
    /\ todo' = still_todo(polled(status_by_load_id, todo, loads))
    /\ polls' = polls \cup {id \in Range(todo) \cap DOMAIN status_by_load_id :
                               status_by_load_id[id] \in {"LOAD_COMPLETED", "LOAD_FAILED"}}
    /\ UNCHANGED <<csvs, loads, load_pc, warnings, err, ret>>
    /\ load_unchanged

\* a mutation of failed_loads: no load counts as failed
failed_loads_none(status_by_load_id_) == {}

\* failed: the loads whose status is not LOAD_COMPLETED
failed_loads(status_by_load_id_) ==
    {id \in DOMAIN status_by_load_id_ : status_by_load_id_[id] # "LOAD_COMPLETED"}

\* after the loop: the warning, and the raise or the return
FinishLoad ==
    /\ load_pc = "poll"
    /\ todo = <<>>
    /\ warnings' = IF failed_loads(status_by_load_id) # {}
                   THEN Append(warnings, failed_loads(status_by_load_id))
                   ELSE warnings
    /\ IF failed_loads(status_by_load_id) # {} /\ op.raise_if_failed
       THEN err' = "AssertionError" /\ ret' = None
       ELSE err' = "none" /\ ret' = status_by_load_id
    /\ load_pc' = "done"
    /\ UNCHANGED <<csvs, todo, status_by_load_id, loads, polls>>
    /\ load_unchanged

NextLoad == SubmitLoad \/ NeptuneLoads \/ PollLoads \/ FinishLoad

SpecLoad == InitLoad /\ [][NextLoad]_vars

\* the function goes on to its next statement; nothing is assumed of Neptune
SpecLoadFair ==
    /\ InitLoad
    /\ [][NextLoad]_vars
    /\ WF_vars(SubmitLoad)
    /\ WF_vars(PollLoads)
    /\ WF_vars(FinishLoad)

all_loads_ended ==
    /\ csvs = <<>>
    /\ \A id \in DOMAIN loads : loads[id] \in {"LOAD_COMPLETED", "LOAD_FAILED"}

polling_ended == load_pc = "done" /\ csvs = <<>>

\* C24: bulk_load_entities polls only after all loads were submitted, ends
\* its polling only when every submitted load was seen as LOAD_COMPLETED or
\* LOAD_FAILED, never polls a load again that it saw as one of these, and
\* ends once every load reports one of these.
C24_PollsUntilTerminal ==
    /\ [](status_by_load_id # EmptyDict => csvs = <<>>)
    /\ [](polling_ended =>
            /\ DOMAIN status_by_load_id = DOMAIN loads
            /\ \A id \in DOMAIN loads :
                  status_by_load_id[id] \in {"LOAD_COMPLETED", "LOAD_FAILED"})
    /\ [](polls = {})
    /\ (all_loads_ended ~> load_pc = "done")

\* the polling has ended with a load seen as failed and one seen as completed
C24_Witness ==
    /\ polling_ended
    /\ Cardinality(DOMAIN loads) >= 2
    /\ \E id \in DOMAIN loads : status_by_load_id[id] = "LOAD_FAILED"
    /\ \E id \in DOMAIN loads : status_by_load_id[id] = "LOAD_COMPLETED"

\* C25: when the polling has ended with a load that is not LOAD_COMPLETED
\* there is one warning, which names the failed loads, and the call raises
\* exactly when raise_if_failed is true; when it does not raise it returns
\* the status of every submitted load.
C25_FailedLoads ==
    polling_ended =>
        /\ (\E id \in DOMAIN loads : status_by_load_id[id] # "LOAD_COMPLETED") =>
              /\ Len(warnings) = 1
              /\ warnings[1] = {id \in DOMAIN loads : status_by_load_id[id] # "LOAD_COMPLETED"}
              /\ (err # "none") = op.raise_if_failed
        /\ err = "none" =>
              /\ DOMAIN ret = Range(load_ids(Len(op.csvs)))
              /\ ret = status_by_load_id
              /\ \A id \in DOMAIN ret : ret[id] = loads[id]

\* a call without raise_if_failed has returned the status of a failed load
C25_Witness ==
    /\ polling_ended
    /\ ~op.raise_if_failed
    /\ err = "none"
    /\ \E id \in DOMAIN ret : ret[id] = "LOAD_FAILED"
    /\ \E id \in DOMAIN ret : ret[id] = "LOAD_COMPLETED"


\* ------------------------------------------------------------------------
\* Calls of GremlinTyper.format and of
\* possible_application_names_application_key
\* ------------------------------------------------------------------------
GremlinTypes ==
    {"Boolean", "Byte", "Short", "Int", "Long", "Float", "Double", "String", "Date"}

\* ints of up to 32 bits, around the bounds of Byte, Short and Int
NarrowInts ==
    {(0 - Pow2(30)) * 2, 0 - Pow2(15) - 1, 0 - Pow2(15), -129, -128, -1, 0, 1, 127, 128, 129,
     Pow2(15) - 1, Pow2(15), Pow2(15) + 1, (Pow2(30) - 1) * 2 + 1}

\* wider ints around the bounds of Int and Long, each with its decimal
\* numeral and whether it lies in [-2**63, 2**63)
WideInts ==
    {[value |-> PyLong(1, 0, 128, 0), decimal |-> "2147483648", in_long |-> TRUE],
     [value |-> PyLong(1, 0, 128, 1), decimal |-> "2147483649", in_long |-> TRUE],
     [value |-> PyLong(-1, 0, 128, 1), decimal |-> "-2147483649", in_long |-> TRUE],
     [value |-> PyLong(1, Pow2(15) - 1, Pow2(24) - 1, Pow2(24) - 1),
      decimal |-> "9223372036854775807", in_long |-> TRUE],
     [value |-> PyLong(1, Pow2(15), 0, 0), decimal |-> "9223372036854775808", in_long |-> FALSE],
     [value |-> PyLong(-1, Pow2(15), 0, 0), decimal |-> "-9223372036854775808", in_long |-> TRUE],
     [value |-> PyLong(-1, Pow2(15), 0, 1), decimal |-> "-9223372036854775809",
      in_long |-> FALSE]}

PyFloat(numeral) == <<"float", numeral>>

ValuesToFormat ==
    {PyInt(n) : n \in NarrowInts}
    \cup {w.value : w \in WideInts}
    \cup {PyBool(TRUE), PyBool(FALSE), PyFloat("1.0"), PyStr("1"), PyStr("hi"), None,
          Date(1), DateTime(1, 0, 0), DateTimeTz(1, 0, 0)}

ApplicationKeys ==
    {"foo", "app-foo", "app-app-foo", "bar", "foo-production", "app-foo-production",
     "foo-prod", "foo-development", "foo-devel", "app-foo-devel", "foo-staging", "foo-stage",
     "app-prod", "foo-producer"}

InitValues ==
    /\ shard = None
    /\ entities = new_entities
    /\ existing = new_existing
    /\ log = new_log
    /\ \/ op \in {[name |-> "GremlinTyper.format", type |-> type, value |-> value] :
                     type \in GremlinTypes, value \in ValuesToFormat}
       \/ op \in {[name |-> "possible_application_names_application_key", app_key |-> app_key] :
                     app_key \in ApplicationKeys}
    /\ err = "none"
    /\ ret = None
    /\ made = None
    /\ repeated = FALSE
    /\ no_graph
    /\ no_runs
    /\ no_threads
    /\ no_loader
    /\ no_streams

\* GremlinType.<type>.value.format(value); the str it returns
GremlinTyperFormat ==
    /\ Calling("GremlinTyper.format")
    /\ \E r \in {GremlinTyper_format(op.type, op.value)} :
          Ends(IF r.err = "none" THEN Ok(PyStr(r.val)) ELSE r)

PossibleApplicationNamesApplicationKey ==
    /\ Calling("possible_application_names_application_key")
    /\ Ends(Ok(possible_application_names_application_key(op.app_key)))

NextValues == GremlinTyperFormat \/ PossibleApplicationNamesApplicationKey

SpecValues == InitValues /\ [][NextValues]_vars

IsFormatted == op.name = "GremlinTyper.format" /\ (err # "none" \/ ret # None)

\* the width in bits of the integer types
width_of(type) ==
    CASE type = "Byte" -> 8 [] type = "Short" -> 16 [] type = "Int" -> 32 [] type = "Long" -> 64

\* -2^(w-1) <= v < 2^(w-1) for an int v, and the decimal numeral of v
fits(v, w) ==
    IF is_wide(v) THEN w = 64 /\ (CHOOSE wide \in WideInts : wide.value = v).in_long
    ELSE w >= 32 \/ (v[2] >= 0 - Pow2(w - 1) /\ v[2] < Pow2(w - 1))
numeral_of(v) ==
    IF is_wide(v) THEN (CHOOSE wide \in WideInts : wide.value = v).decimal ELSE ToString(v[2])

\* C26: an integer type of width w accepts a value exactly when it is an
\* integer v with -2^(w-1) <= v < 2^(w-1); everything else, booleans
\* included, is rejected with an AssertionError, and an accepted value is
\* formatted as its decimal numeral.
C26_IntegerBounds ==
    (IsFormatted /\ op.type \in {"Byte", "Short", "Int", "Long"}) =>
        IF TypeOf(op.value) = "int" /\ fits(op.value, width_of(op.type))
        THEN err = "none" /\ ret = PyStr(numeral_of(op.value))
        ELSE err = "AssertionError"

\* what holds of the integer types: as C26, but a boolean is accepted as the
\* int it is (True is 1) and is formatted as True or False
C26_IntegerBoundsButBool ==
    (IsFormatted /\ op.type \in {"Byte", "Short", "Int", "Long"}) =>
        IF TypeOf(op.value) = "bool"
        THEN err = "none" /\ ret \in {PyStr("True"), PyStr("False")}
        ELSE IF TypeOf(op.value) = "int" /\ fits(op.value, width_of(op.type))
        THEN err = "none" /\ ret = PyStr(numeral_of(op.value))
        ELSE err = "AssertionError"

IsPossibleNames ==
    op.name = "possible_application_names_application_key" /\ ret # None

\* k with the app- prefix stripped if it is there, added otherwise
toggled(k) == IF startswith(k, "app-") THEN SubSeq(k, 5, Len(k)) ELSE "app-" \o k
\* the environment suffixes k ends with
suffixes_of(k) ==
    {suffix \in {"-development", "-devel", "-staging", "-stage", "-production", "-prod"} :
        endswith(k, suffix)}
\* k cut by the length of the suffix
cut(k, suffix) == IF Len(k) > Len(suffix) THEN SubSeq(k, 1, Len(k) - Len(suffix)) ELSE ""
\* k without the suffix, if it ends with it
removed(k, suffix) == IF endswith(k, suffix) THEN cut(k, suffix) ELSE k

Object(id, value) == [id |-> id, value |-> value]

PeekingIterator(iterable) ==
    [it |-> iterable, has_peeked_value |-> FALSE, peeked_value |-> None]

Gives(r, self) == [err |-> r.err, val |-> r.val, self |-> self]

\* what an iterable yields is a value or, for a generator that fails, the
\* exception it raises there; a generator that has raised is finished
Raising(e) == [raises |-> e]
is_raising(yielded) == "raises" \in DOMAIN yielded

\* __next__: the peeked value if there is one, else next(self.it)
PeekingIterator_next(self) ==
    IF self.has_peeked_value
    THEN Gives(Ok(self.peeked_value),
               [self EXCEPT !.peeked_value = None, !.has_peeked_value = FALSE])
    ELSE IF self.it = <<>> THEN Gives(Raise("StopIteration"), self)
    ELSE IF is_raising(Head(self.it))
    THEN Gives(Raise(Head(self.it).raises), [self EXCEPT !.it = <<>>])
    ELSE Gives(Ok(Head(self.it)), [self EXCEPT !.it = Tail(self.it)])

\* a mutation of peek: the value is taken from the iterator and not kept
PeekingIterator_peek_not_kept(self) ==
    IF self.it = <<>> THEN Gives(Raise("StopIteration"), self)
    ELSE Gives(Ok(Head(self.it)), [self EXCEPT !.it = Tail(self.it)])

PeekingIterator_peek(self) ==
    IF self.has_peeked_value THEN Gives(Ok(self.peeked_value), self)
    ELSE IF self.it = <<>> THEN Gives(Raise("StopIteration"), self)
    ELSE IF is_raising(Head(self.it))
    THEN Gives(Raise(Head(self.it).raises), [self EXCEPT !.it = <<>>])
    ELSE Gives(Ok(Head(self.it)),
               [it |-> Tail(self.it), has_peeked_value |-> TRUE, peeked_value |-> Head(self.it)])

PeekingIterator_peek_default(self, default) ==
    IF PeekingIterator_peek(self).err = "StopIteration" THEN Gives(Ok(default), self)
    ELSE PeekingIterator_peek(self)

\* a mutation of take_peeked: whatever was peeked is dropped, then the asserts
PeekingIterator_take_peeked_dropping(self, value) ==
    IF ~self.has_peeked_value THEN Gives(Raise("AssertionError"), self)
    ELSE Gives(IF self.peeked_value.id = value.id THEN Ok(None) ELSE Raise("AssertionError"),
               [self EXCEPT !.peeked_value = None, !.has_peeked_value = FALSE])

\* self.peeked_value is value: the same object, not an equal one
PeekingIterator_take_peeked(self, value) ==
    IF ~self.has_peeked_value THEN Gives(Raise("AssertionError"), self)
    ELSE IF self.peeked_value.id # value.id THEN Gives(Raise("AssertionError"), self)
    ELSE Gives(Ok(None), [self EXCEPT !.peeked_value = None, !.has_peeked_value = FALSE])

\* has_more without keeping what it peeked: a mutation
PeekingIterator_has_more_not_kept(self) ==
    IF PeekingIterator_peek(self).err = "StopIteration" THEN Gives(Ok(PyBool(FALSE)), self)
    ELSE IF PeekingIterator_peek(self).err # "none" THEN PeekingIterator_peek(self)
    ELSE Gives(Ok(PyBool(TRUE)), PeekingIterator_peek_not_kept(self).self)

\* has_more: only StopIteration is caught
PeekingIterator_has_more(self) ==
    IF PeekingIterator_peek(self).err = "StopIteration" THEN Gives(Ok(PyBool(FALSE)), self)
    ELSE IF PeekingIterator_peek(self).err # "none" THEN PeekingIterator_peek(self)
    ELSE Gives(Ok(PyBool(TRUE)), PeekingIterator_peek(self).self)

\* the metric of an item: one (the default) or the length of its value; both
\* are positive, as the assert of one_chunk has it
metric_of(metric, item) == IF metric = "one" THEN 1 ELSE Len(item.value)

\* the loop of one_chunk: items and the iterator when the loop is left;
\* StopIteration ends the loop, another exception of peek leaves one_chunk
RECURSIVE one_chunk_loop(_, _, _, _, _), one_chunk_item(_, _, _, _, _, _)
one_chunk_loop(self, n, metric, items, items_metric) ==
    IF PeekingIterator_peek(self).err = "StopIteration"
    THEN [err |-> "none", items |-> items, self |-> self]
    ELSE IF PeekingIterator_peek(self).err # "none"
    THEN [err |-> PeekingIterator_peek(self).err, items |-> items,
          self |-> PeekingIterator_peek(self).self]
    ELSE one_chunk_item(PeekingIterator_peek(self).self, PeekingIterator_peek(self).val,
                        n, metric, items, items_metric)

\* a mutation of one_chunk_item: an item is added while the chunk is below n
one_chunk_item_overfull(self, item, n, metric, items, items_metric) ==
    IF items_metric < n \/ items = <<>>
    THEN one_chunk_loop(PeekingIterator_take_peeked(self, item).self, n, metric,
                        Append(items, item), items_metric + metric_of(metric, item))
    ELSE [err |-> "none", items |-> items, self |-> self]

one_chunk_item(self, item, n, metric, items, items_metric) ==
    IF items = <<>> /\ metric_of(metric, item) > n
    THEN [err |-> "none", items |-> <<item>>,
          self |-> PeekingIterator_take_peeked(self, item).self]
    ELSE IF items_metric + metric_of(metric, item) <= n
    THEN IF items_metric + metric_of(metric, item) >= n
         THEN [err |-> "none", items |-> Append(items, item),
               self |-> PeekingIterator_take_peeked(self, item).self]
         ELSE one_chunk_loop(PeekingIterator_take_peeked(self, item).self, n, metric,
                             Append(items, item), items_metric + metric_of(metric, item))
    ELSE [err |-> "none", items |-> items, self |-> self]

\* has_more = it.has_more() and the return of one_chunk: more is what
\* has_more gave on the iterator as the loop left it
one_chunk_returns(looped, more) ==
    IF looped.err # "none"
    THEN [err |-> looped.err, items |-> looped.items, has_more |-> FALSE, self |-> looped.self]
    ELSE IF more.err # "none"
    THEN [err |-> more.err, items |-> looped.items, has_more |-> FALSE, self |-> more.self]
    ELSE [err |-> "none", items |-> looped.items, has_more |-> more.val[2], self |-> more.self]

one_chunk_has_more(looped) ==
    one_chunk_returns(looped, PeekingIterator_has_more(looped.self))

\* a mutation of one_chunk: the first item is taken and left out
one_chunk_without_first(self, n, metric) ==
    one_chunk_has_more(one_chunk_loop(PeekingIterator_next(self).self, n, metric, <<>>, 0))

\* one_chunk: (tuple(items), has_more), and the iterator after has_more; with
\* err the exception that left it, where nothing is returned
one_chunk(self, n, metric) == one_chunk_has_more(one_chunk_loop(self, n, metric, <<>>, 0))

\* chunk: the chunks the generator yields when it is run to its end, or to
\* the exception that leaves it
RECURSIVE chunk_after(_, _, _, _)
chunk_after(chunked, n, metric, yielded) ==
    IF chunked.err # "none"
    THEN [err |-> chunked.err, chunks |-> yielded, self |-> chunked.self]
    ELSE IF chunked.has_more
    THEN chunk_after(one_chunk(chunked.self, n, metric), n, metric,
                     IF chunked.items # <<>> \/ chunked.has_more
                     THEN Append(yielded, chunked.items) ELSE yielded)
    ELSE [err |-> "none",
          chunks |-> IF chunked.items # <<>> \/ chunked.has_more
                     THEN Append(yielded, chunked.items) ELSE yielded,
          self |-> chunked.self]

chunk(self, n, metric) == chunk_after(one_chunk(self, n, metric), n, metric, <<>>)

\* reduce_in_chunks: the things its consumer is called with, in order, and
\* the exception that left it
reduce_in_chunks(stream_, n, metric) ==
    IF n > 0
    THEN [err |-> chunk(PeekingIterator(stream_), n, metric).err,
          calls |-> chunk(PeekingIterator(stream_), n, metric).chunks]
    ELSE [err |-> "none", calls |-> <<stream_>>]

\* _assure_collection: a Collection as it is, tuple(iterable) otherwise,
\* which runs the iterable to its end
RECURSIVE _assure_collection(_)
_assure_collection(iterable) ==
    IF iterable = <<>> THEN Ok(<<>>)
    ELSE IF is_raising(Head(iterable)) THEN Raise(Head(iterable).raises)
    ELSE IF _assure_collection(Tail(iterable)).err # "none"
    THEN _assure_collection(Tail(iterable))
    ELSE Ok(<<Head(iterable)>> \o _assure_collection(Tail(iterable)).val)

\* _consumer for each of the calls: consumer is called with the collection,
\* unless making it raised
RECURSIVE _consumer(_, _)
_consumer(calls, reduced_err) ==
    IF calls = <<>> THEN [err |-> reduced_err, consumer_calls |-> <<>>]
    ELSE IF _assure_collection(Head(calls)).err # "none"
    THEN [err |-> _assure_collection(Head(calls)).err, consumer_calls |-> <<>>]
    ELSE [err |-> _consumer(Tail(calls), reduced_err).err,
          consumer_calls |-> <<_assure_collection(Head(calls)).val>>
                                \o _consumer(Tail(calls), reduced_err).consumer_calls]

\* _actual_state += len(things), for every call of _consumer
RECURSIVE actual_state(_)
actual_state(calls) ==
    IF calls = <<>> THEN 0 ELSE Len(Head(calls)) + actual_state(Tail(calls))

\* consume_in_chunks: what consumer is called with, and the count returned
consume_in_chunks_of(consumed) ==
    [err |-> consumed.err,
     consumer_calls |-> consumed.consumer_calls,
     val |-> IF consumed.err = "none" THEN PyInt(actual_state(consumed.consumer_calls))
             ELSE None]

consume_in_chunks(stream_, n, metric) ==
    consume_in_chunks_of(_consumer(reduce_in_chunks(stream_, n, metric).calls,
                                   reduce_in_chunks(stream_, n, metric).err))

\* ---- the calls on one PeekingIterator, and of consume_in_chunks ----
MaxStream == 3
StreamValues == {"a", "bb"}
ChunkLimits == {1, 2, 3}
Metrics == {"one", "len"}

Streams ==
    UNION {{[i \in 1..len |-> Object(i, values[i])] : values \in [1..len -> StreamValues]} :
              len \in 0..MaxStream}

InitStreams ==
    /\ shard = None
    /\ entities = new_entities
    /\ existing = new_existing
    /\ log = new_log
    /\ op = NoOp
    /\ err = "none"
    /\ ret = None
    /\ made = None
    /\ repeated = FALSE
    /\ no_graph
    /\ no_runs
    /\ no_threads
    /\ no_loader
    /\ stream \in Streams
    /\ it = stream
    /\ has_peeked_value = FALSE
    /\ peeked_value = None
    /\ taken = <<>>
    /\ consumer_calls = <<>>
    /\ consuming = [pc |-> "idle"]
    /\ locked = FALSE
    /\ frames = <<>>

self_now == [it |-> it, has_peeked_value |-> has_peeked_value, peeked_value |-> peeked_value]

RECURSIVE concat(_)
concat(chunks) == IF chunks = <<>> THEN <<>> ELSE Head(chunks) \o concat(Tail(chunks))

taken_by(by, items) == [i \in DOMAIN items |-> [by |-> by, value |-> items[i]]]

\* a call on the PeekingIterator: r is what the method gave, items what it
\* handed out
Did(o, r, by, items) ==
    /\ op' = o
    /\ err' = r.err
    /\ ret' = r.val
    /\ it' = r.self.it
    /\ has_peeked_value' = r.self.has_peeked_value
    /\ peeked_value' = r.self.peeked_value
    /\ taken' = taken \o taken_by(by, items)
    /\ UNCHANGED <<shard, entities, existing, log, made, repeated, graph_vars, runs_vars,
                   module_vars, loader_vars, stream, consumer_calls, consuming, locked, frames>>

StreamNext ==
    \E r \in {PeekingIterator_next(self_now)} :
        Did([name |-> "__next__"], r, "__next__", IF r.err = "none" THEN <<r.val>> ELSE <<>>)

StreamPeek == Did([name |-> "peek"], PeekingIterator_peek(self_now), "peek", <<>>)

StreamPeekDefault ==
    \E default \in {None, PyStr("a")} :
        Did([name |-> "peek_default", default |-> default],
            PeekingIterator_peek_default(self_now, default), "peek", <<>>)

StreamHasMore ==
    Did([name |-> "has_more"], PeekingIterator_has_more(self_now), "peek", <<>>)

\* take_peeked of a value of the stream, or of an object that is not in it
StreamTakePeeked ==
    \E value \in Range(stream) \cup {Object(0, "a")} :
        \E r \in {PeekingIterator_take_peeked(self_now, value)} :
            Did([name |-> "take_peeked", value |-> value], r, "take_peeked",
                IF r.err = "none" THEN <<value>> ELSE <<>>)

\* list(chunk(it, n, metric)) on the PeekingIterator as it is
StreamChunk ==
    \E n \in ChunkLimits \cup {0}, metric \in Metrics :
        \E r \in {chunk(self_now, n, metric)} :
            Did([name |-> "chunk", n |-> n, metric |-> metric],
                [err |-> "none", val |-> r.chunks, self |-> r.self],
                "take_peeked", concat(r.chunks))

\* consume_in_chunks(stream=..., n=n, consumer=consumer, metric=metric) of a
\* stream from which nothing has been read
ConsumeInChunks ==
    /\ it = stream
    /\ ~has_peeked_value
    /\ consumer_calls = <<>>
    /\ \E n \in ChunkLimits \cup {-1, 0}, metric \in Metrics :
          \E r \in {consume_in_chunks(stream, n, metric)} :
              /\ op' = [name |-> "consume_in_chunks", n |-> n, metric |-> metric]
              /\ err' = "none"
              /\ ret' = r.val
              /\ consumer_calls' = r.consumer_calls
              /\ it' = <<>>
              /\ taken' = taken \o taken_by(IF n > 0 THEN "take_peeked" ELSE "tuple", stream)
              /\ UNCHANGED <<has_peeked_value, peeked_value>>
    /\ UNCHANGED <<shard, entities, existing, log, made, repeated, graph_vars, runs_vars,
                   module_vars, loader_vars, stream, consuming, locked, frames>>

NextStreams ==
    \/ StreamNext
    \/ StreamPeek
    \/ StreamPeekDefault
    \/ StreamHasMore
    \/ StreamTakePeeked
    \/ StreamChunk
    \/ ConsumeInChunks

SpecStreams == InitStreams /\ [][NextStreams]_vars

\* the values handed out so far, and what is still to come
handed_out == [i \in DOMAIN taken |-> taken[i].value]
exhausted == Len(taken) = Len(stream)
upcoming == stream[Len(taken) + 1]

\* C28: nothing of the stream is lost or handed out twice; next returns the
\* values of the stream in order; peek, peek_default and has_more consume
\* nothing, and peek returns what the following next returns; when the stream
\* is exhausted next and peek raise StopIteration, peek_default returns its
\* default and has_more is false.
C28_PeekingIterator ==
    /\ [](handed_out \o (IF has_peeked_value THEN <<peeked_value>> ELSE <<>>) \o it = stream)
    /\ [][/\ op'.name = "__next__" =>
                IF exhausted THEN err' = "StopIteration" /\ taken' = taken
                ELSE /\ err' = "none"
                     /\ ret' = upcoming
                     /\ taken' = Append(taken, [by |-> "__next__", value |-> upcoming])
          /\ op'.name = "peek" =>
                /\ taken' = taken
                /\ IF exhausted THEN err' = "StopIteration"
                   ELSE err' = "none" /\ ret' = upcoming
          /\ op'.name = "peek_default" =>
                /\ taken' = taken
                /\ err' = "none"
                /\ ret' = IF exhausted THEN op'.default ELSE upcoming
          /\ op'.name = "has_more" =>
                /\ taken' = taken
                /\ err' = "none"
                /\ ret' = PyBool(~exhausted)]_vars

\* next has returned the last value of a stream after a peek at it, and a
\* peek after that has raised StopIteration
C28_Witness ==
    /\ op.name = "peek"
    /\ err = "StopIteration"
    /\ Len(stream) = MaxStream
    /\ \A i \in DOMAIN taken : taken[i].by = "__next__"
    /\ handed_out = stream

\* C29: take_peeked(value) takes the peeked value when value is that very
\* object; with another value, or with nothing peeked, it raises
\* AssertionError and leaves the iterator as it was.
C29_TakePeeked ==
    [][op'.name = "take_peeked" =>
          IF has_peeked_value /\ peeked_value.id = op'.value.id
          THEN /\ err' = "none"
               /\ ~has_peeked_value'
               /\ it' = it
               /\ taken' = Append(taken, [by |-> "take_peeked", value |-> peeked_value])
          ELSE /\ err' = "AssertionError"
               /\ UNCHANGED <<it, has_peeked_value, peeked_value, taken>>]_vars

\* take_peeked of an equal value that is not the peeked object has failed,
\* and the peeked value is still there
C29_Witness ==
    /\ op.name = "take_peeked"
    /\ err = "AssertionError"
    /\ has_peeked_value
    /\ peeked_value.value = op.value.value

\* C30 as stated: the chunks, in the order the consumer gets them, are the
\* stream when joined; no chunk is empty; consume_in_chunks returns the
\* number of items.
C30_ChunksAsStated ==
    [][/\ op'.name = "consume_in_chunks" =>
             /\ concat(consumer_calls') = stream
             /\ \A i \in DOMAIN consumer_calls' : consumer_calls'[i] # <<>>
             /\ ret' = PyInt(Len(stream))
       /\ op'.name = "chunk" =>
             /\ concat(ret') = (IF has_peeked_value THEN <<peeked_value>> ELSE <<>>) \o it
             /\ \A i \in DOMAIN ret' : ret'[i] # <<>>]_vars

\* C30, amended: as stated, but with n <= 0 consume_in_chunks hands the
\* whole stream to the consumer as one chunk, which is empty when the
\* stream is.
C30_Chunks ==
    [][/\ op'.name = "consume_in_chunks" =>
             /\ concat(consumer_calls') = stream
             /\ \A i \in DOMAIN consumer_calls' :
                   consumer_calls'[i] # <<>> \/ (op'.n <= 0 /\ stream = <<>>)
             /\ op'.n <= 0 => consumer_calls' = <<stream>>
             /\ ret' = PyInt(Len(stream))
       /\ op'.name = "chunk" =>
             /\ concat(ret') = (IF has_peeked_value THEN <<peeked_value>> ELSE <<>>) \o it
             /\ \A i \in DOMAIN ret' : ret'[i] # <<>>]_vars

\* consume_in_chunks has handed a stream of three to its consumer in two
\* chunks
C30_Witness ==
    /\ op.name = "consume_in_chunks"
    /\ Len(stream) = MaxStream
    /\ Len(consumer_calls) = 2
    /\ ret = PyInt(MaxStream)


\* the metric of a chunk: the sum of the metrics of its items
RECURSIVE total_metric(_, _)
total_metric(metric, items) ==
    IF items = <<>> THEN 0
    ELSE metric_of(metric, Head(items)) + total_metric(metric, Tail(items))

\* chunks made with the limit n obey the limit and are closed for a reason
within_limit(chunks, n, metric) ==
    \A i \in DOMAIN chunks :
        /\ \/ total_metric(metric, chunks[i]) <= n
           \/ Len(chunks[i]) = 1 /\ metric_of(metric, chunks[i][1]) > n
        /\ \/ total_metric(metric, chunks[i]) >= n
           \/ i = Len(chunks)
           \/ total_metric(metric, chunks[i]) + metric_of(metric, chunks[i + 1][1]) > n

\* C31: with a limit n > 0 every chunk has a metric of at most n, or is one
\* item whose metric is above n; a chunk is closed when its metric has
\* reached n, when the next item would take it above n, or at the end of
\* the stream.
C31_ChunkLimit ==
    [][/\ (op'.name = "chunk" /\ op'.n > 0) => within_limit(ret', op'.n, op'.metric)
       /\ (op'.name = "consume_in_chunks" /\ op'.n > 0) =>
             within_limit(consumer_calls', op'.n, op'.metric)]_vars

\* chunks of a limit of two: one item of metric two was handed out alone,
\* two items of metric one together
C31_Witness ==
    /\ op.name = "consume_in_chunks"
    /\ op.n = 2
    /\ op.metric = "len"
    /\ Len(consumer_calls) = 2
    /\ \E i \in DOMAIN consumer_calls : Len(consumer_calls[i]) = 2


\* ------------------------------------------------------------------------
\* consume_in_chunks step by step, over a stream that is a generator and may
\* raise: the call of one_chunk by the generator chunk, the call of the
\* consumer with what it yielded, and the return.
\* ------------------------------------------------------------------------
\* generators: those that yield the values of a stream, and those that
\* raise KeyError when the values of a shorter one have been yielded
RaisingStreams ==
    Streams \cup {s \o <<Raising("KeyError")>> : s \in {t \in Streams : Len(t) < MaxStream}}

\* the values a generator yields before it ends or raises
values_of(stream_) == SelectSeq(stream_, LAMBDA yielded : ~is_raising(yielded))

InitChunks ==
    /\ shard = None
    /\ entities = new_entities
    /\ existing = new_existing
    /\ log = new_log
    /\ op = NoOp
    /\ err = "none"
    /\ ret = None
    /\ made = None
    /\ repeated = FALSE
    /\ no_graph
    /\ no_runs
    /\ no_threads
    /\ no_loader
    /\ stream \in RaisingStreams
    /\ it = stream
    /\ has_peeked_value = FALSE
    /\ peeked_value = None
    /\ taken = <<>>
    /\ consumer_calls = <<>>
    /\ consuming = [pc |-> "idle"]
    /\ locked = FALSE
    /\ frames = <<>>

chunks_unchanged ==
    UNCHANGED <<shard, entities, existing, log, made, repeated, graph_vars, runs_vars,
                module_vars, loader_vars, stream, locked, frames>>

\* consume_in_chunks is called; reduce_in_chunks makes the PeekingIterator
\* and starts the generator when n > 0, and calls _consumer with the stream
\* otherwise
ConsumeStart ==
    /\ consuming.pc = "idle"
    /\ \E n \in ChunkLimits \cup {-1, 0}, metric \in Metrics :
          /\ op' = [name |-> "consume_in_chunks", n |-> n, metric |-> metric]
          /\ consuming' = [pc |-> IF n > 0 THEN "one_chunk" ELSE "_consumer",
                           items |-> IF n > 0 THEN <<>> ELSE stream,
                           has_more |-> n > 0,
                           _actual_state |-> 0]
    /\ UNCHANGED <<err, ret, it, has_peeked_value, peeked_value, taken, consumer_calls>>
    /\ chunks_unchanged

\* items, has_more = one_chunk(it=it, n=n, metric=metric) in chunk, and the
\* yield of items if there are some or has_more
OneChunkOf(chunked) ==
    /\ it' = chunked.self.it
    /\ has_peeked_value' = chunked.self.has_peeked_value
    /\ peeked_value' = chunked.self.peeked_value
    /\ taken' = taken \o taken_by("take_peeked", chunked.items)
    /\ err' = chunked.err
    /\ consuming' =
          [consuming EXCEPT
              !.pc = IF chunked.err # "none" THEN "done"
                     ELSE IF chunked.items # <<>> \/ chunked.has_more THEN "_consumer"
                     ELSE "return",
              !.items = chunked.items,
              !.has_more = chunked.has_more]

OneChunk ==
    /\ consuming.pc = "one_chunk"
    /\ OneChunkOf(one_chunk(self_now, op.n, op.metric))
    /\ UNCHANGED <<op, ret, consumer_calls>>
    /\ chunks_unchanged

\* _consumer(things, None): the collection is made, counted and handed to
\* the consumer
ConsumerOf(things) ==
    /\ err' = things.err
    /\ consumer_calls' =
          IF things.err = "none" THEN Append(consumer_calls, things.val) ELSE consumer_calls
    /\ consuming' =
          [consuming EXCEPT
              !.pc = IF things.err # "none" THEN "done"
                     ELSE IF consuming.has_more THEN "one_chunk" ELSE "return",
              !._actual_state = IF things.err = "none" THEN @ + Len(things.val) ELSE @]
    /\ it' = IF op.n > 0 THEN it ELSE <<>>
    /\ taken' = IF op.n > 0 \/ things.err # "none" THEN taken
                ELSE taken \o taken_by("tuple", things.val)

Consumer ==
    /\ consuming.pc = "_consumer"
    /\ ConsumerOf(_assure_collection(consuming.items))
    /\ UNCHANGED <<op, ret, has_peeked_value, peeked_value>>
    /\ chunks_unchanged

\* return _actual_state
ConsumeReturn ==
    /\ consuming.pc = "return"
    /\ ret' = PyInt(consuming._actual_state)
    /\ consuming' = [consuming EXCEPT !.pc = "done"]
    /\ UNCHANGED <<op, err, it, has_peeked_value, peeked_value, taken, consumer_calls>>
    /\ chunks_unchanged

NextChunks ==
    \/ ConsumeStart
    \/ OneChunk
    \/ Consumer
    \/ ConsumeReturn

SpecChunks == InitChunks /\ [][NextChunks]_vars

\* the steps give what consume_in_chunks gives as one call
StepsAgree ==
    consuming.pc = "done" =>
        /\ err = consume_in_chunks(stream, op.n, op.metric).err
        /\ ret = consume_in_chunks(stream, op.n, op.metric).val
        /\ consumer_calls = consume_in_chunks(stream, op.n, op.metric).consumer_calls

\* the chunks of the values that came before the exception, had the stream
\* ended there
chunks_before_raise == chunk(PeekingIterator(values_of(stream)), op.n, op.metric).chunks

\* the last of them was still being filled: it is below n
partially_filled(chunks) ==
    /\ chunks # <<>>
    /\ total_metric(op.metric, chunks[Len(chunks)]) < op.n

completed_chunks(chunks) ==
    IF partially_filled(chunks) THEN SubSeq(chunks, 1, Len(chunks) - 1) ELSE chunks

source_raised == consuming.pc = "done" /\ err # "none"

\* C32: when the source raises, the exception leaves consume_in_chunks, the
\* consumer has been called with every chunk completed before it, and not
\* with the partially filled one.
C32_SourceRaises ==
    source_raised =>
        /\ err = "KeyError"
        /\ ret = None
        /\ consumer_calls = IF op.n > 0 THEN completed_chunks(chunks_before_raise) ELSE <<>>

\* what consume_in_chunks does: the last chunk of the values before the
\* exception is not delivered, full or not
C32_LastChunkLost ==
    source_raised =>
        /\ err = "KeyError"
        /\ ret = None
        /\ consumer_calls =
              IF op.n > 0 /\ chunks_before_raise # <<>>
              THEN SubSeq(chunks_before_raise, 1, Len(chunks_before_raise) - 1)
              ELSE <<>>

\* a full chunk was read before the exception and never delivered
C32_FullChunkLost ==
    /\ source_raised
    /\ op.n = 2
    /\ op.metric = "one"
    /\ Len(values_of(stream)) = 2
    /\ consumer_calls = <<>>


\* what the PeekingIterator has still to hand out
remaining == (IF has_peeked_value THEN <<peeked_value>> ELSE <<>>) \o it

\* C33: with n <= 0 the whole stream is one chunk: chunk gives a single chunk
\* with every item, and consume_in_chunks calls the consumer once with all
\* of them.
C33_WholeStreamAsOneChunk ==
    [][/\ (op'.name = "chunk" /\ op'.n <= 0 /\ remaining # <<>>) => ret' = <<remaining>>
       /\ (op'.name = "consume_in_chunks" /\ op'.n <= 0) => consumer_calls' = <<stream>>]_vars

\* what holds of it: reduce_in_chunks does not chunk when n <= 0
C33_ConsumerCalledOnce ==
    [][(op'.name = "consume_in_chunks" /\ op'.n <= 0) =>
            /\ consumer_calls' = <<stream>>
            /\ ret' = PyInt(Len(stream))]_vars

\* chunk with n = 0 gives every item as a chunk of its own
C33_ChunkOfZero ==
    [][(op'.name = "chunk" /\ op'.n = 0) =>
            ret' = [i \in DOMAIN remaining |-> <<remaining[i]>>]]_vars


\* ------------------------------------------------------------------------
\* utils/streams.py: PeekingAsyncIterator, called by one task.  A call is a
\* frame on the stack of the task: it enters "with self.lock", runs its body
\* and leaves; threading.Lock is not reentrant and has no owner.
\* ------------------------------------------------------------------------
stop_async(r) == IF r.err = "StopIteration" THEN [r EXCEPT !.err = "StopAsyncIteration"] ELSE r

\* peek under the lock: await self.it.__anext__() unless a value is kept
PeekingAsyncIterator_peek(self) == stop_async(PeekingIterator_peek(self))

PeekingAsyncIterator_take_peeked(self, value) == PeekingIterator_take_peeked(self, value)

Frame(name, frame_pc) == [name |-> name, pc |-> frame_pc, value |-> None]

InitAsync ==
    /\ shard = None
    /\ entities = new_entities
    /\ existing = new_existing
    /\ log = new_log
    /\ op = NoOp
    /\ err = "none"
    /\ ret = None
    /\ made = None
    /\ repeated = FALSE
    /\ no_graph
    /\ no_runs
    /\ no_threads
    /\ no_loader
    /\ stream \in Streams
    /\ it = stream
    /\ has_peeked_value = FALSE
    /\ peeked_value = None
    /\ taken = <<>>
    /\ consumer_calls = <<>>
    /\ consuming = [pc |-> "idle"]
    /\ locked = FALSE
    /\ frames = [caller \in {"task"} |-> <<>>]

async_unchanged ==
    UNCHANGED <<shard, entities, existing, log, made, repeated, graph_vars, runs_vars,
                module_vars, loader_vars, stream, consumer_calls, consuming>>

depth == Len(frames["task"])
top == frames["task"][depth]

\* the stack when its top frame has returned value: a frame that awaits it
\* goes on with it
returned_to(stack, value) ==
    IF Len(stack) = 1 THEN <<>>
    ELSE [SubSeq(stack, 1, Len(stack) - 1) EXCEPT
             ![Len(stack) - 1] = [@ EXCEPT !.pc = "awaited", !.value = value]]

\* the task calls a method of the iterator
AsyncCall ==
    /\ depth = 0
    /\ \E o \in {[name |-> "__anext__"], [name |-> "peek"]}
              \cup {[name |-> "take_peeked", value |-> v] : v \in Range(stream)} :
          /\ op' = o
          /\ frames' = [frames EXCEPT !["task"] = <<Frame(o.name, "with self.lock")>>]
    /\ err' = "none"
    /\ ret' = None
    /\ UNCHANGED <<it, has_peeked_value, peeked_value, taken, locked>>
    /\ async_unchanged

\* with self.lock: entered when the lock is free
AsyncAcquire ==
    /\ depth > 0
    /\ top.pc = "with self.lock"
    /\ ~locked
    /\ locked' = TRUE
    /\ frames' = [frames EXCEPT !["task"][depth].pc = "body"]
    /\ UNCHANGED <<op, err, ret, it, has_peeked_value, peeked_value, taken>>
    /\ async_unchanged

\* a body that ends: the iterator as r leaves it, the lock released, the
\* frame off the stack
AsyncLeaves(r, items) ==
    /\ it' = r.self.it
    /\ has_peeked_value' = r.self.has_peeked_value
    /\ peeked_value' = r.self.peeked_value
    /\ taken' = taken \o taken_by(top.name, items)
    /\ locked' = FALSE
    /\ frames' = [frames EXCEPT !["task"] = returned_to(@, r.val)]
    /\ err' = IF depth = 1 THEN r.err ELSE err
    /\ ret' = IF depth = 1 THEN r.val ELSE ret

AsyncPeek ==
    /\ depth > 0
    /\ top.name = "peek"
    /\ top.pc = "body"
    /\ AsyncLeaves(PeekingAsyncIterator_peek(self_now), <<>>)
    /\ UNCHANGED op
    /\ async_unchanged

AsyncTakePeeked ==
    /\ depth > 0
    /\ top.name = "take_peeked"
    /\ top.pc = "body"
    /\ \E r \in {PeekingAsyncIterator_take_peeked(self_now, op.value)} :
          AsyncLeaves(r, IF r.err = "none" THEN <<op.value>> ELSE <<>>)
    /\ UNCHANGED op
    /\ async_unchanged

\* __anext__ under the lock: the peeked value is returned; without one the
\* body awaits self.__anext__(), a new call of the same method, and returns
\* what that gives
AsyncAnext ==
    /\ depth > 0
    /\ top.name = "__anext__"
    /\ top.pc \in {"body", "awaited"}
    /\ IF top.pc = "awaited"
       THEN AsyncLeaves(Gives(Ok(top.value), self_now), <<>>)
       ELSE IF has_peeked_value
       THEN AsyncLeaves(Gives(Ok(peeked_value),
                              [self_now EXCEPT !.peeked_value = None,
                                               !.has_peeked_value = FALSE]),
                        <<peeked_value>>)
       ELSE /\ frames' = [frames EXCEPT
                             !["task"] = Append([@ EXCEPT ![depth].pc = "await"],
                                                Frame("__anext__", "with self.lock"))]
            /\ UNCHANGED <<err, ret, it, has_peeked_value, peeked_value, taken, locked>>
    /\ UNCHANGED op
    /\ async_unchanged

NextAsync ==
    \/ AsyncCall
    \/ AsyncAcquire
    \/ AsyncPeek
    \/ AsyncTakePeeked
    \/ AsyncAnext

SpecAsync == InitAsync /\ [][NextAsync]_vars

\* the event loop runs the task whenever it can go on; every step changes
\* the stack of the task
SpecAsyncFair == SpecAsync /\ WF_frames(NextAsync)

in_anext == depth > 0 /\ frames["task"][1].name = "__anext__"

\* C34: every call of __anext__ completes with the lock released.
C34_AnextCompletes == in_anext ~> (depth = 0 /\ ~locked)

\* what holds of __anext__: with a peeked value it returns that value, clears
\* it and releases the lock
C34_AnextOfPeeked ==
    [][(in_anext /\ top.pc = "body" /\ has_peeked_value) =>
            /\ ret' = peeked_value
            /\ err' = "none"
            /\ ~has_peeked_value'
            /\ it' = it
            /\ ~locked'
            /\ depth' = 0]_vars

\* the call waits for the lock that its caller, __anext__ itself, holds
C34_AnextBlocked ==
    /\ depth = 2
    /\ frames["task"][1].pc = "await"
    /\ top.pc = "with self.lock"
    /\ locked
    /\ it # <<>>


\* the Description vertices of ENTITIES
description_vertices == Range(entities["Description"])

\* the uris of what has a description in Tables: the table and its column c1
described_uris ==
    UNION {{table_uri_of(table), make_column_uri(table_uri_of(table), "c1")} : table \in Tables}

\* C35: the key of a Description vertex that table_entities builds is the
\* uri of its subject followed by '/_', the source and '_description'.
C35_DescriptionKey ==
    \A vertex \in description_vertices :
        \E subject_uri \in described_uris :
            vertex["key"] =
                PyStr(subject_uri \o "/_" \o vertex["description_source"][2] \o "_description")

\* what make_description_uri gives: the subject, the source and
\* '_description' as three segments
C35_DescriptionKeyAsBuilt ==
    \A vertex \in description_vertices :
        \E subject_uri \in described_uris :
            /\ vertex["key"] =
                  PyStr(subject_uri \o "/" \o vertex["description_source"][2] \o "/_description")
            /\ vertex["key"] =
                  PyStr(make_description_uri(subject_uri, vertex["description_source"][2]))

\* a table was added: it has its user description, the programmatic one and
\* that of its column
C35_DescriptionsBuilt ==
    /\ op.name = "add_table_entities"
    /\ err = "none"
    /\ Cardinality(description_vertices) = 3


\* the types of group, with the types that the first conflict does not
\* touch, were partitioned on their own: they are what some of the returned
\* partitions hold
folded_into(group, overlapping_types) ==
    \E P \in SUBSET DOMAIN ret :
        UNION {Range(ret[i]) : i \in P} = group \cup other_types(op.types, overlapping_types)

has_conflict ==
    /\ IsPartitioned
    /\ err = "none"
    /\ overlapping_properties(op.types, default_cardinality_of(op.types).val) # {}

\* C36: at the split step the types that the chosen conflicting property
\* does not touch are folded into the largest of the signature groups.
C36_FoldedIntoLargest ==
    has_conflict =>
        \E overlapping_types \in
              sorted_overlapping_types(op.types, default_cardinality_of(op.types).val) :
            folded_into(overlapping_types[Len(overlapping_types)], overlapping_types)

\* what the split step does: overlapping_types is sorted by len and the
\* other types join overlapping_types[0], a smallest group
C36_FoldedIntoSmallest ==
    has_conflict =>
        \E overlapping_types \in
              sorted_overlapping_types(op.types, default_cardinality_of(op.types).val) :
            folded_into(overlapping_types[1], overlapping_types)

\* two types agree on x, a third differs and a fourth does not declare x:
\* the fourth is in the partition of the third
C36_FoldedWithTheOne ==
    /\ has_conflict
    /\ Len(op.types) = 4
    /\ Len(ret) = 2
    /\ \E i \in DOMAIN ret :
          /\ Len(ret[i]) = 2
          /\ \E t, u \in Range(ret[i]) : declares(t, "x") /\ ~declares(u, "x")
          /\ \A t \in Range(op.types) \ Range(ret[i]) : declares(t, "x")


\* C37: expire_previously_existing removes no entity from ENTITIES that
\* this run created, adds none and changes none (no expired timestamp is
\* set), whether of the given edge types or of another type, and leaves
\* EXISTING as it is.
C37_ExpireFrame ==
    [][IsExpire(op') =>
        /\ \A l \in Labels :
              /\ \A id \in DOMAIN entities[l] :
                    id \in DOMAIN entities'[l] /\ entities'[l][id] = entities[l][id]
              /\ DOMAIN entities'[l] \subseteq DOMAIN entities[l]
        /\ existing' = existing]_vars

\* the call has visited an earlier edge that this run created again, and
\* returned
C37_Witness ==
    /\ IsExpire(op)
    /\ err = "none"
    /\ \E l \in op.edge_types :
          \E e \in dict_values(existing[l]) : e["~id"] \in DOMAIN entities[l]


\* how many values the source has yielded, to the PeekingIterator or to
\* tuple()
advanced == Len(values_of(stream)) - Len(values_of(it))

\* C38: when the consumer is handed a chunk the source has yielded the
\* values of the chunks so far, that chunk included, and one more if
\* the stream has more; the chunks are handed over in the order of the
\* stream.
C38_LooksAheadByOne ==
    [][(consuming.pc = "_consumer" /\ op.n > 0) =>
          /\ consumer_calls' = Append(consumer_calls, consuming.items)
          /\ concat(consumer_calls') = SubSeq(stream, 1, Len(concat(consumer_calls')))
          /\ advanced = Len(concat(consumer_calls'))
                        + (IF Len(concat(consumer_calls')) < Len(values_of(stream))
                           THEN 1 ELSE 0)
          /\ advanced' = advanced]_vars

\* the consumer has two chunks of a stream of three values, all of which
\* the source has yielded: the third is the peeked value
C38_Witness ==
    /\ consuming.pc = "one_chunk"
    /\ op.n = 1
    /\ Len(consumer_calls) = 2
    /\ Len(stream) = 3
    /\ has_peeked_value
    /\ it = <<>>


IsBuilderCall(o) ==
    o.name \in {"add_table_entities", "add_user_entities", "add_app_entities", "complete"}

\* C39: complete() returns ENTITIES and deletes self.entities and
\* self.existing; once it has returned, every add_* and complete() call on
\* the builder raises and leaves what was returned, and the builder, as
\* they are.
C39_SingleUse ==
    /\ []((op.name = "complete" /\ err = "none") => (completed /\ ret = entities))
    /\ [][completed =>
            /\ completed'
            /\ IsBuilderCall(op') =>
                  /\ err' = "AttributeError"
                  /\ ret' = None
                  /\ entities' = entities
                  /\ existing' = existing
                  /\ callables' = callables
                  /\ store' = store
                  /\ log' = log]_vars

\* a table was added, complete() returned, and a second add of a table
\* has failed
C39_Witness ==
    /\ completed
    /\ op.name = "add_table_entities"
    /\ err = "AttributeError"
    /\ callables = <<"table">>
    /\ passes = <<"table">>
    /\ entities["Table"] # EmptyDict


\* ------------------------------------------------------------------------
\* utils/streams.py: one PeekingIterator and two threads that draw from it,
\* by next(it) or, as one_chunk does, by it.peek() and it.take_peeked(item).
\* Every method holds self.lock for its own body only.
\* ------------------------------------------------------------------------
Peekers == {"t1", "t2"}

InitPeekers ==
    /\ shard = None
    /\ entities = new_entities
    /\ existing = new_existing
    /\ log = new_log
    /\ op = NoOp
    /\ err = "none"
    /\ ret = None
    /\ made = None
    /\ repeated = FALSE
    /\ no_graph
    /\ no_runs
    /\ no_threads
    /\ no_loader
    /\ stream \in Streams
    /\ it = stream
    /\ has_peeked_value = FALSE
    /\ peeked_value = None
    /\ taken = <<>>
    /\ consumer_calls = <<>>
    /\ consuming = [pc |-> "idle"]
    /\ locked = FALSE
    /\ frames = [t \in Peekers |-> <<>>]

top_of(t) == frames[t][Len(frames[t])]

\* a thread starts to draw: it calls next(it), or it.peek() from one_chunk
PeekerDraw(t) ==
    /\ frames[t] = <<>>
    /\ \E stack \in {<<Frame("__next__", "with self.lock")>>,
                     <<Frame("one_chunk", "peek"), Frame("peek", "with self.lock")>>} :
          /\ frames' = [frames EXCEPT ![t] = stack]
          /\ op' = [name |-> stack[Len(stack)].name, thread |-> t]
    /\ UNCHANGED <<err, ret, it, has_peeked_value, peeked_value, taken, locked>>
    /\ async_unchanged

\* with self.lock: the thread goes on when the lock is free
PeekerAcquire(t) ==
    /\ frames[t] # <<>>
    /\ top_of(t).pc = "with self.lock"
    /\ ~locked
    /\ locked' = TRUE
    /\ frames' = [frames EXCEPT ![t][Len(frames[t])].pc = "body"]
    /\ UNCHANGED <<op, err, ret, it, has_peeked_value, peeked_value, taken>>
    /\ async_unchanged

\* the stack of a thread when the method on its top gave r: an
\* AssertionError ends the thread, StopIteration ends the drawing, a peeked
\* item goes to one_chunk, and an item that was taken is the thread's
peeker_after(stack, r) ==
    IF r.err = "AssertionError" THEN <<Frame("raised", "AssertionError")>>
    ELSE IF r.err = "none" /\ stack[Len(stack)].name = "peek"
    THEN <<[Frame("one_chunk", "peeked") EXCEPT !.value = r.val]>>
    ELSE <<>>

peeker_got(frame, r) ==
    IF r.err # "none" THEN <<>>
    ELSE IF frame.name = "__next__" THEN <<r.val>>
    ELSE IF frame.name = "take_peeked" THEN <<frame.value>>
    ELSE <<>>

\* the body of the method under the lock, and the release of the lock
PeekerLeaves(t, r) ==
    /\ it' = r.self.it
    /\ has_peeked_value' = r.self.has_peeked_value
    /\ peeked_value' = r.self.peeked_value
    /\ locked' = FALSE
    /\ frames' = [frames EXCEPT ![t] = peeker_after(@, r)]
    /\ taken' = taken \o taken_by(t, peeker_got(top_of(t), r))
    /\ op' = [name |-> top_of(t).name, thread |-> t]
    /\ err' = r.err
    /\ ret' = r.val

PeekerBody(t) ==
    /\ frames[t] # <<>>
    /\ top_of(t).pc = "body"
    /\ PeekerLeaves(t, CASE top_of(t).name = "__next__" -> PeekingIterator_next(self_now)
                         [] top_of(t).name = "peek" -> PeekingIterator_peek(self_now)
                         [] top_of(t).name = "take_peeked" ->
                                PeekingIterator_take_peeked(self_now, top_of(t).value))
    /\ async_unchanged

\* one_chunk with the item it peeked: it.take_peeked(item)
PeekerTakePeeked(t) ==
    /\ frames[t] # <<>>
    /\ top_of(t).name = "one_chunk"
    /\ top_of(t).pc = "peeked"
    /\ frames' = [frames EXCEPT
                     ![t] = <<[@[1] EXCEPT !.pc = "take_peeked"],
                              [Frame("take_peeked", "with self.lock") EXCEPT
                                  !.value = top_of(t).value]>>]
    /\ op' = [name |-> "take_peeked", thread |-> t]
    /\ UNCHANGED <<err, ret, it, has_peeked_value, peeked_value, taken, locked>>
    /\ async_unchanged

NextPeekers ==
    \E t \in Peekers :
        \/ PeekerDraw(t)
        \/ PeekerAcquire(t)
        \/ PeekerBody(t)
        \/ PeekerTakePeeked(t)

SpecPeekers == InitPeekers /\ [][NextPeekers]_vars

raised(t) == frames[t] # <<>> /\ frames[t][1].name = "raised"

\* C40: whatever the interleaving of the two threads, no assertion of the
\* PeekingIterator fails, and no value of the stream is handed to both
\* threads or twice.
C40_ConcurrentConsumers ==
    /\ \A t \in Peekers : ~raised(t)
    /\ \A i, j \in DOMAIN taken : i # j => taken[i].value.id # taken[j].value.id

\* what the lock gives: one thread at a time is in a method body, and what
\* was handed out, the peeked value and the rest of the iterator are the
\* stream
C40_MethodsExclude ==
    /\ Cardinality({t \in Peekers : frames[t] # <<>> /\ top_of(t).pc = "body"})
          = (IF locked THEN 1 ELSE 0)
    /\ handed_out \o (IF has_peeked_value THEN <<peeked_value>> ELSE <<>>) \o it = stream

\* both threads peeked the first value, one has taken it, and the other
\* failed the assert of take_peeked
C40_SecondTakeFails ==
    /\ \E t \in Peekers : raised(t)
    /\ Len(taken) = 1
    /\ ~has_peeked_value

====
